---- MODULE Spec2Model ----
(***************************************************************************)
(* Knight's Tour solving engine: the walk and backtracking solvers of      *)
(* algorithms/backtracking, the chromosome decoders, mobility primitives,  *)
(* belief space and evolution loop of algorithms/cultural.                 *)
(*                                                                         *)
(* The Python call stack of a solver is the variable `stack`: one frame    *)
(* per active call of solve, random_walk, _backtrack or solve_recursive,   *)
(* holding that call's locals (its cell, its move_count and the candidate  *)
(* destinations its for-loop has not tried yet).                           *)
(***************************************************************************)
EXTENDS Integers, Sequences, FiniteSets, TLC

(***************************************************************************)
(* Bounds of the model.                                                    *)
(***************************************************************************)
MaxN == 5            \* largest board side of the single-call search runs
MaxNRandom == 3      \* largest board side for the random walk
MaxNTerm == 3        \* largest board side of the exhaustive (uncapped) runs
MaxNReuse == 5       \* largest board side when one instance is solved repeatedly
MaxSolves == 3       \* solve() calls made on one instance in the reuse runs
MaxCalls == 5100     \* recursive calls explored per solve() in the capped runs
MaxDeadline == 12    \* latest timeout check at which the deadline may expire
MaxNDegree == 6      \* largest board side on which the degree primitives are probed
MaxVisited == 2      \* most cells visited when a degree primitive is probed
MaxNBelief == 2      \* largest board side of the belief-space runs
MaxUpdates == 2      \* BeliefSpace.update calls made on one belief space
MaxNDecode == 4      \* largest board side of the decode runs
MaxGenes == 8        \* genes consumed by one decode run
MaxNEvolve == 2      \* largest board side of the runs that evolve for MaxGenerations
MaxGenerations == 2  \* largest self.generations
MaxNResolve == 3     \* largest board side when one evolutionary instance is solved twice
PopulationSize == 3  \* self.population_size of the evolutionary runs
MaxNManager == 2     \* largest board size passed to SolverManager.solve
MaxRegistrations == 1  \* register_solver calls made on one SolverManager
MaxNConverged == 4   \* largest board side of the runs that start from a converged population
ConvergedGenerations == 47  \* self.generations of those runs
MaxMutatingGenerations == 0  \* generations of those runs in which mutate redraws genes
LargeBoard == 11     \* run_optimal falls back to the Cultural Algorithm from this size on
MaxRuns == 3         \* solver threads started by one GUI
MaxQueue == 3        \* most messages waiting on the progress queue
MaxNSearch == 4      \* largest board side on which local_search is applied
MaxStagnationUpdates == 33  \* AdvancedBeliefSpace.update calls on one belief space

NoDeadline == {}     \* the deadline does not expire during this solve()
NoBudget == {}       \* no cap on recursive calls or on mutating generations
None == <<>>         \* Python None / absent position
NoStats == [absent |-> TRUE]     \* solve() returned no statistics dictionary
NoResult == [success |-> FALSE, path |-> <<>>, stats |-> NoStats, returned |-> FALSE]
NoRun == [start |-> <<>>, path |-> <<>>, timed_out |-> FALSE, recorded |-> FALSE,
          others |-> FALSE]

(***************************************************************************)
(* Move tables.                                                            *)
(***************************************************************************)
KNIGHT_MOVES == << <<-2, -1>>, <<-2, 1>>, <<-1, -2>>, <<-1, 2>>,
                   <<1, -2>>, <<1, 2>>, <<2, -1>>, <<2, 1>> >>

MOVES == << <<2, 1>>, <<1, 2>>, <<-1, 2>>, <<-2, 1>>,
            <<-2, -1>>, <<-1, -2>>, <<1, -2>>, <<2, -1>> >>

DefaultTimeout == 60

Cells(nn) == (0 .. nn - 1) \X (0 .. nn - 1)

EmptyBoard(nn) == [c \in Cells(nn) |-> -1]

\* argument positions offered to solve(): the board and a margin around it
StartChoices(nn) == (-1 .. nn) \X (-1 .. nn)

Abs(i) == IF i < 0 THEN -i ELSE i

IsKnightStep(p, q) ==
    \/ Abs(q[1] - p[1]) = 1 /\ Abs(q[2] - p[2]) = 2
    \/ Abs(q[1] - p[1]) = 2 /\ Abs(q[2] - p[2]) = 1

Range(s) == {s[i] : i \in DOMAIN s}

(***************************************************************************)
(* RandomKnightWalk and its subclasses: board primitives.                  *)
(***************************************************************************)
is_valid_position(nn, x, y) == 0 <= x /\ x < nn /\ 0 <= y /\ y < nn

is_unvisited(b, x, y) == b[<<x, y>>] = -1

Destinations(table, x, y) == [i \in 1 .. 8 |-> <<x + table[i][1], y + table[i][2]>>]

get_valid_moves(nn, b, x, y) ==
    SelectSeq(Destinations(KNIGHT_MOVES, x, y),
              LAMBDA d : is_valid_position(nn, d[1], d[2]) /\ is_unvisited(b, d[1], d[2]))

\* EnhancedBacktracking._get_degree
enh_get_degree(nn, b, x, y) ==
    Cardinality({i \in 1 .. 8 :
        LET d == Destinations(KNIGHT_MOVES, x, y)[i]
        IN  is_valid_position(nn, d[1], d[2]) /\ is_unvisited(b, d[1], d[2])})

\* EnhancedBacktracking._has_isolated_neighbor: with (x, y) blocked, some unvisited
\* neighbour of (x, y) has no unvisited neighbour left.  No method calls it.
_has_isolated_neighbor(nn, b, x, y) ==
    LET blocked == [b EXCEPT ![<<x, y>>] = 999]
    IN  \E i \in 1 .. 8 :
            LET d == Destinations(KNIGHT_MOVES, x, y)[i]
            IN  /\ is_valid_position(nn, d[1], d[2])
                /\ is_unvisited(blocked, d[1], d[2])
                /\ enh_get_degree(nn, blocked, d[1], d[2]) = 0

(***************************************************************************)
(* BacktrackingSolver: board primitives.                                   *)
(***************************************************************************)
is_valid_move(nn, b, x, y) ==
    0 <= x /\ x < nn /\ 0 <= y /\ y < nn /\ b[<<x, y>>] = -1

\* a degree that ignores the board
DegreeIgnoringBoard(nn, b, x, y) == 0

get_degree(nn, b, x, y) ==
    Cardinality({i \in 1 .. 8 :
        LET d == Destinations(MOVES, x, y)[i]
        IN  is_valid_move(nn, b, d[1], d[2])})

\* list.sort(key=...): ascending and stable, keys are degrees 0..8
RECURSIVE SortBuckets(_, _, _)
SortBuckets(s, key(_), k) ==
    IF k > 8 THEN <<>>
    ELSE SelectSeq(s, LAMBDA m : key(m) = k) \o SortBuckets(s, key, k + 1)

sort_by_degree(s, key(_)) == SortBuckets(s, key, 0)

get_ordered_moves(nn, b, x, y) ==
    LET valid_moves == SelectSeq(Destinations(MOVES, x, y),
                                 LAMBDA d : is_valid_move(nn, b, d[1], d[2]))
    IN  sort_by_degree(valid_moves, LAMBDA m : get_degree(nn, b, m[1], m[2]))

(***************************************************************************)
(* State of one solver instance of the walk / backtracking family.         *)
(***************************************************************************)
VARIABLES
    kind,             \* class of the instance
    n,                \* self.n / self.board_size
    start_pos,        \* BacktrackingSolver.start_pos; else the argument of the running solve()
    timeout,          \* BacktrackingSolver.timeout
    board,            \* self.board: -1 unvisited, k >= 0 visited at step k
    path,             \* self.path / self.solution_path
    recursive_calls,
    backtrack_count,
    total_moves,
    dead_ends_hit,
    timed_out,
    stack,            \* active calls, innermost last
    pc,               \* "idle" (constructed), "search" / "evolve" (inside solve), "done"
                      \* (solve returned), "raised" (solve ended with an exception)
    result,           \* value returned by the last completed solve()
    checks,           \* timeout checks made since start_time was taken
    deadline,         \* {d}: elapsed time exceeds the timeout from the d-th check on; {}: never
    budget,           \* {c}: recursive_calls is capped at c in this run, or mutate redraws
                      \* genes only in its first c generations; {}: no cap
    solvesLeft,       \* solve() calls this instance will still receive
    pathAtDeadline,   \* history: the path stack when the deadline was detected
    firstRun          \* history: start, path and timed_out flag of the first completed solve()

btVars == <<kind, n, start_pos, timeout, board, path, recursive_calls, backtrack_count,
            total_moves, dead_ends_hit, timed_out, stack, pc, result, checks, deadline,
            budget, solvesLeft, pathAtDeadline, firstRun>>

(***************************************************************************)
(* State of the evolutionary family and of the probes of its primitives.   *)
(***************************************************************************)
VARIABLES
    population,       \* the local `population` of evolve
    generation,       \* loop index of evolve: generations completed so far
    generations,      \* self.generations
    population_size,  \* self.population_size
    best_fitness,     \* self.best_fitness
    best_path,        \* self.best_path
    belief_space,     \* self.belief_space
    use_warnsdorff,   \* CulturalAlgorithmSolver.use_warnsdorff
    dec,              \* locals of the running decode(): path, visited, current_pos, cache
    work,             \* history: decode() calls and generations run by the last solve()
    visited,          \* probe input: a set of visited cells
    probe             \* probe output: the values the primitives returned

evoVars == <<population, generation, generations, population_size, best_fitness, best_path,
             belief_space, use_warnsdorff, dec, work, visited, probe>>

(***************************************************************************)
(* State of a SolverManager.                                               *)
(***************************************************************************)
VARIABLES
    solvers,          \* self.solvers: (algorithm_name, level) -> registered class
    request           \* arguments of the last SolverManager.solve call; history: its fault

mgrVars == <<solvers, request>>

(***************************************************************************)
(* State of the GUI (KnightTourGUI): the main thread runs the button       *)
(* handlers and _monitor_progress, each solver thread runs                 *)
(* _solve_in_thread.                                                       *)
(***************************************************************************)
VARIABLES
    is_running,       \* self.is_running
    progress_queue,   \* self.progress_queue, oldest message first
    threads,          \* solver threads started by _run_solver that have not finished
    runs,             \* _run_solver calls that started a thread; each is named by its number
    current_solution, \* self.current_solution: {r} when it holds the path of run r, {} when None
    saved,            \* history: the runs passed to _save_to_database, in order
    stopped           \* history: the runs whose thread was running when Stop was pressed

guiVars == <<is_running, progress_queue, threads, runs, current_solution, saved, stopped>>

vars == <<btVars, evoVars, mgrVars, guiVars>>

\* no SolverManager is active
ManagerIdle ==
    /\ solvers = <<>>
    /\ request = <<>>

\* KnightTourGUI.__init__: nothing runs, the queue is empty
GuiIdle ==
    /\ is_running = FALSE
    /\ progress_queue = <<>>
    /\ threads = {}
    /\ runs = 0
    /\ current_solution = {}
    /\ saved = <<>>
    /\ stopped = {}

\* no evolutionary solver and no probe is active
EvoIdle ==
    /\ population = <<>>
    /\ generation = 0
    /\ generations = 0
    /\ population_size = 0
    /\ best_fitness = 0
    /\ best_path = <<>>
    /\ belief_space = <<>>
    /\ use_warnsdorff = FALSE
    /\ dec = <<>>
    /\ work = <<>>
    /\ visited = {}
    /\ probe = <<>>

WalkKinds == {"RandomKnightWalk", "OrderedKnightWalk"}

DfsKinds == {"PureBacktracking", "EnhancedBacktracking"}

SearchKinds == DfsKinds \cup {"BacktrackingSolver"}

Frame(f, p, m, t) == [fn |-> f, pos |-> p, mc |-> m, todo |-> t]

Top == stack[Len(stack)]

\* a pop that removes nothing
PopNothing(s) == s

Pop(s) == SubSeq(s, 1, Len(s) - 1)

ReplaceTop(s, f) == [s EXCEPT ![Len(s)] = f]

\* a timeout check that is skipped once timed_out is set
ExpiredUntilFlagged == ~timed_out /\ \E d \in deadline : checks >= d

\* time.time() - start_time > timeout, for a clock that never runs backwards
Expired == \E d \in deadline : checks >= d

\* __init__ of the five classes
Constructed(k, nn, sp) ==
    /\ kind = k
    /\ n = nn
    /\ start_pos = sp
    /\ timeout = DefaultTimeout
    /\ board = EmptyBoard(nn)
    /\ path = <<>>
    /\ recursive_calls = 0
    /\ backtrack_count = 0
    /\ total_moves = 0
    /\ dead_ends_hit = 0
    /\ timed_out = FALSE
    /\ stack = <<>>
    /\ pc = "idle"
    /\ result = NoResult
    /\ checks = 0
    /\ deadline = NoDeadline
    /\ pathAtDeadline = <<>>
    /\ firstRun = NoRun

SizesOf(k, top) == IF k = "RandomKnightWalk" THEN 1 .. MaxNRandom ELSE 1 .. top

InitKinds(kinds, top) ==
    \E k \in kinds : \E nn \in SizesOf(k, top) :
        \E sp \in (IF k = "BacktrackingSolver" THEN StartChoices(nn) ELSE {None}) :
            Constructed(k, nn, sp)

\* the tuple solve() returns; walk and DFS classes return (success, path) only
WalkResult(succ, p) == [success |-> succ, path |-> p, stats |-> NoStats, returned |-> TRUE]

InvalidStartStats ==
    [recursive_calls |-> 0, error |-> "Invalid start position"]

SolveStats(calls, p, to, tmo) ==
    IF to
    THEN [recursive_calls |-> calls, solution_length |-> Len(p), timed_out |-> to,
          error |-> <<"Timeout after", tmo, "seconds">>]
    ELSE [recursive_calls |-> calls, solution_length |-> Len(p), timed_out |-> to]

\* history of completed solve() calls: the first one, and whether a later one had another start
Remember(s, res, to) ==
    IF firstRun.recorded
    THEN [firstRun EXCEPT !.others = @ \/ s # firstRun.start]
    ELSE [start |-> s, path |-> res.path, timed_out |-> to, recorded |-> TRUE,
          others |-> FALSE]

\* a solve() that searches on whatever the previous call left on the board
KeepBoard(b, nn) == b

\* self.board = [[-1] * n for _ in range(n)] at the start of solve()
ResetBoard(b, nn) == EmptyBoard(nn)

(***************************************************************************)
(* RandomKnightWalk.solve (inherited by OrderedKnightWalk, overridden with *)
(* the same resets in algorithms/level1_ordered.py).                       *)
(***************************************************************************)
SolveWalk(s) ==
    /\ kind \in WalkKinds
    /\ pc \in {"idle", "done"}
    /\ solvesLeft > 0
    /\ solvesLeft' = solvesLeft - 1
    /\ start_pos' = s
    /\ board' = ResetBoard(board, n)
    /\ path' = <<>>
    /\ total_moves' = 0
    /\ dead_ends_hit' = 0
    /\ IF ~is_valid_position(n, s[1], s[2])
       THEN /\ result' = WalkResult(FALSE, <<>>)
            /\ firstRun' = Remember(s, result', FALSE)
            /\ pc' = "done"
            /\ stack' = <<>>
       ELSE /\ result' = NoResult
            /\ firstRun' = firstRun
            /\ pc' = "search"
            /\ stack' = <<Frame("solve", None, -1, <<s>>)>>
    /\ UNCHANGED <<kind, n, timeout, recursive_calls, backtrack_count, timed_out,
                   checks, deadline, budget, pathAtDeadline>>
    /\ UNCHANGED <<evoVars, mgrVars, guiVars>>

\* random_walk, up to the loop
WalkEnter ==
    /\ pc = "search"
    /\ kind \in WalkKinds
    /\ Top.fn = "solve"
    /\ Top.todo # <<>>
    /\ LET s == Head(Top.todo)
       IN  /\ board' = [board EXCEPT ![s] = 0]
           /\ path' = Append(path, s)
           /\ total_moves' = total_moves + 1
           /\ stack' = Append(ReplaceTop(stack, [Top EXCEPT !.todo = <<>>]),
                              Frame("random_walk", s, 0, <<>>))
    /\ UNCHANGED <<kind, n, start_pos, timeout, recursive_calls, backtrack_count,
                   dead_ends_hit, timed_out, pc, result, checks, deadline, budget,
                   solvesLeft, pathAtDeadline, firstRun>>
    /\ UNCHANGED <<evoVars, mgrVars, guiVars>>

\* select_move: RandomKnightWalk shuffles and takes the first, OrderedKnightWalk takes the first
select_move(k, valid_moves) ==
    IF k = "RandomKnightWalk" THEN Range(valid_moves) ELSE {valid_moves[1]}

\* one iteration of the loop of random_walk
WalkStep ==
    /\ pc = "search"
    /\ Top.fn = "random_walk"
    /\ Top.mc < n * n - 1
    /\ LET valid_moves == get_valid_moves(n, board, Top.pos[1], Top.pos[2])
       IN  IF valid_moves = <<>>
           THEN /\ dead_ends_hit' = dead_ends_hit + 1
                /\ stack' = Pop(stack)
                /\ UNCHANGED <<board, path, total_moves>>
           ELSE \E nxt \in select_move(kind, valid_moves) :
                /\ board' = [board EXCEPT ![nxt] = Top.mc + 1]
                /\ path' = Append(path, nxt)
                /\ total_moves' = total_moves + 1
                /\ stack' = ReplaceTop(stack, [Top EXCEPT !.pos = nxt, !.mc = Top.mc + 1])
                /\ UNCHANGED dead_ends_hit
    /\ UNCHANGED <<kind, n, start_pos, timeout, recursive_calls, backtrack_count,
                   timed_out, pc, result, checks, deadline, budget, solvesLeft,
                   pathAtDeadline, firstRun>>
    /\ UNCHANGED <<evoVars, mgrVars, guiVars>>

\* the loop of random_walk ends: random_walk returns True and solve returns
WalkExit ==
    /\ pc = "search"
    /\ Top.fn = "random_walk"
    /\ ~(Top.mc < n * n - 1)
    /\ result' = WalkResult(TRUE, path)
    /\ firstRun' = Remember(start_pos, result', FALSE)
    /\ pc' = "done"
    /\ stack' = <<>>
    /\ UNCHANGED <<kind, n, start_pos, timeout, board, path, recursive_calls,
                   backtrack_count, total_moves, dead_ends_hit, timed_out, checks,
                   deadline, budget, solvesLeft, pathAtDeadline>>
    /\ UNCHANGED <<evoVars, mgrVars, guiVars>>

(***************************************************************************)
(* PureBacktracking.solve (inherited by EnhancedBacktracking).             *)
(***************************************************************************)
SolveDfs(s) ==
    /\ kind \in DfsKinds
    /\ pc \in {"idle", "done"}
    /\ solvesLeft > 0
    /\ solvesLeft' = solvesLeft - 1
    /\ start_pos' = s
    /\ board' = ResetBoard(board, n)
    /\ path' = <<>>
    /\ total_moves' = 0
    /\ dead_ends_hit' = 0
    /\ backtrack_count' = 0
    /\ recursive_calls' = 0
    /\ IF ~is_valid_position(n, s[1], s[2])
       THEN /\ result' = WalkResult(FALSE, <<>>)
            /\ firstRun' = Remember(s, result', FALSE)
            /\ pc' = "done"
            /\ stack' = <<>>
       ELSE /\ result' = NoResult
            /\ firstRun' = firstRun
            /\ pc' = "search"
            /\ stack' = <<Frame("solve", None, -1, <<s>>)>>
    /\ UNCHANGED <<kind, n, timeout, timed_out, checks, deadline, budget, pathAtDeadline>>
    /\ UNCHANGED <<evoVars, mgrVars, guiVars>>

(***************************************************************************)
(* BacktrackingSolver.solve, up to the call of solve_recursive.  The       *)
(* deadline d is the environment's choice of when the clock passes         *)
(* start_time + timeout.                                                   *)
(***************************************************************************)
SolveWarnsdorff(d) ==
    /\ kind = "BacktrackingSolver"
    /\ pc \in {"idle", "done"}
    /\ solvesLeft > 0
    /\ solvesLeft' = solvesLeft - 1
    /\ checks' = 0
    /\ deadline' = d
    /\ board' = ResetBoard(board, n)
    /\ path' = <<>>
    /\ recursive_calls' = 0
    /\ timed_out' = FALSE
    /\ pathAtDeadline' = <<>>
    /\ IF ~(0 <= start_pos[1] /\ start_pos[1] < n /\ 0 <= start_pos[2] /\ start_pos[2] < n)
       THEN /\ result' = [success |-> FALSE, path |-> <<>>, stats |-> InvalidStartStats,
                          returned |-> TRUE]
            /\ firstRun' = Remember(start_pos, result', FALSE)
            /\ pc' = "done"
            /\ stack' = <<>>
       ELSE /\ result' = NoResult
            /\ firstRun' = firstRun
            /\ pc' = "search"
            /\ stack' = <<Frame("solve", None, -1, <<start_pos>>)>>
    /\ UNCHANGED <<kind, n, start_pos, timeout, backtrack_count, total_moves,
                   dead_ends_hit, budget>>
    /\ UNCHANGED <<evoVars, mgrVars, guiVars>>

\* a mark that numbers the steps from 1
MarkOneBased(b, c, k) == [b EXCEPT ![c] = k + 1]

\* self.board[x][y] = move_count
Mark(b, c, k) == [b EXCEPT ![c] = k]

\* self.board[x][y] = -1, the undo of a frame that found no tour
UnmarkSkipped(b, c) == b

Unmark(b, c) == [b EXCEPT ![c] = -1]

\* a for-loop that gives up after its first candidate
FirstCandidateOnly(k, nn, b, x, y) ==
    LET valid_moves == get_valid_moves(nn, b, x, y)
    IN  IF valid_moves = <<>> THEN <<>> ELSE <<valid_moves[1]>>

\* the candidate list a frame iterates over, computed once when its for-loop starts
Candidates(k, nn, b, x, y) ==
    IF k = "BacktrackingSolver" THEN get_ordered_moves(nn, b, x, y)
    ELSE IF k = "EnhancedBacktracking"
         THEN sort_by_degree(get_valid_moves(nn, b, x, y),
                             LAMBDA m : enh_get_degree(nn, b, m[1], m[2]))
         ELSE get_valid_moves(nn, b, x, y)

\* what solve() returns once the root call has returned succ
SearchResult(k, succ, p, calls, to, tmo) ==
    IF k = "BacktrackingSolver"
    THEN [success |-> succ, path |-> p, stats |-> SolveStats(calls, p, to, tmo),
          returned |-> TRUE]
    ELSE WalkResult(succ, p)

(***************************************************************************)
(* The innermost active call makes its next call: solve calls the root     *)
(* frame, a frame calls _backtrack / solve_recursive on its next           *)
(* candidate.  The step runs the callee up to the start of its own loop,   *)
(* or up to its return when it times out or completes the tour; a True     *)
(* result is returned through every frame and solve returns.               *)
(***************************************************************************)
Descend ==
    /\ pc = "search"
    /\ kind \in SearchKinds
    /\ Top.todo # <<>>
    /\ LET c == Head(Top.todo)
           mc == Top.mc + 1
           caller == [Top EXCEPT !.todo = Tail(Top.todo)]
       IN  IF kind = "BacktrackingSolver" /\ Expired
           THEN /\ timed_out' = TRUE
                /\ pathAtDeadline' = IF timed_out THEN pathAtDeadline ELSE path
                /\ stack' = ReplaceTop(stack, caller)
                /\ UNCHANGED <<board, path, recursive_calls, pc, result, checks, firstRun>>
           ELSE /\ \A cap \in budget : recursive_calls < cap
                /\ checks' = IF kind = "BacktrackingSolver" THEN checks + 1 ELSE checks
                /\ recursive_calls' = recursive_calls + 1
                /\ board' = Mark(board, c, mc)
                /\ path' = Append(path, c)
                /\ IF mc = n * n - 1
                   THEN /\ result' = SearchResult(kind, TRUE, path', recursive_calls',
                                                  timed_out, timeout)
                        /\ firstRun' = Remember(start_pos, result', timed_out)
                        /\ pc' = "done"
                        /\ stack' = <<>>
                   ELSE /\ stack' = Append(ReplaceTop(stack, caller),
                                           Frame("search", c, mc,
                                                 Candidates(kind, n, board', c[1], c[2])))
                        /\ UNCHANGED <<pc, result, firstRun>>
                /\ UNCHANGED <<timed_out, pathAtDeadline>>
    /\ UNCHANGED <<kind, n, start_pos, timeout, backtrack_count, total_moves,
                   dead_ends_hit, deadline, budget, solvesLeft>>
    /\ UNCHANGED <<evoVars, mgrVars, guiVars>>

\* a frame has tried every candidate: it undoes its mark and returns False
Backtrack ==
    /\ pc = "search"
    /\ kind \in SearchKinds
    /\ Top.fn = "search"
    /\ Top.todo = <<>>
    /\ backtrack_count' = IF kind \in DfsKinds THEN backtrack_count + 1 ELSE backtrack_count
    /\ board' = Unmark(board, Top.pos)
    /\ path' = Pop(path)
    /\ stack' = Pop(stack)
    /\ UNCHANGED <<kind, n, start_pos, timeout, recursive_calls, total_moves,
                   dead_ends_hit, timed_out, pc, result, checks, deadline, budget,
                   solvesLeft, pathAtDeadline, firstRun>>
    /\ UNCHANGED <<evoVars, mgrVars, guiVars>>

\* the root call (or random_walk) has returned False: solve returns
SolveFail ==
    /\ pc = "search"
    /\ Top.fn = "solve"
    /\ Top.todo = <<>>
    /\ result' = SearchResult(kind, FALSE, path, recursive_calls, timed_out, timeout)
    /\ firstRun' = Remember(start_pos, result', timed_out)
    /\ pc' = "done"
    /\ stack' = <<>>
    /\ UNCHANGED <<kind, n, start_pos, timeout, board, path, recursive_calls,
                   backtrack_count, total_moves, dead_ends_hit, timed_out, checks,
                   deadline, budget, solvesLeft, pathAtDeadline>>
    /\ UNCHANGED <<evoVars, mgrVars, guiVars>>

Deadlines == {{d} : d \in 0 .. MaxDeadline} \cup {NoDeadline}

Solve ==
    \/ \E s \in StartChoices(n) : SolveWalk(s)
    \/ \E s \in StartChoices(n) : SolveDfs(s)
    \/ \E d \in Deadlines : SolveWarnsdorff(d)

(***************************************************************************)
(* Single solve() on a fresh instance, recursive calls capped at MaxCalls. *)
(***************************************************************************)
AllKinds == WalkKinds \cup SearchKinds

Init ==
    /\ InitKinds(AllKinds, MaxN)
    /\ budget = {MaxCalls}
    /\ solvesLeft = 1
    /\ EvoIdle
    /\ ManagerIdle
    /\ GuiIdle

Next ==
    \/ Solve
    \/ WalkEnter
    \/ WalkStep
    \/ WalkExit
    \/ Descend
    \/ Backtrack
    \/ SolveFail

Spec == Init /\ [][Next]_vars

(***************************************************************************)
(* Single solve() of a backtracking solver, run to its end without a cap;  *)
(* a call that has started keeps executing.                                *)
(***************************************************************************)
InitTerm ==
    /\ InitKinds(SearchKinds, MaxNTerm)
    /\ budget = NoBudget
    /\ solvesLeft = 1
    /\ EvoIdle
    /\ ManagerIdle
    /\ GuiIdle

Running == Descend \/ Backtrack \/ SolveFail

NextTerm ==
    \/ \E s \in StartChoices(n) : SolveDfs(s)
    \/ \E d \in Deadlines : SolveWarnsdorff(d)
    \/ Descend
    \/ Backtrack
    \/ SolveFail

SpecTerm == InitTerm /\ [][NextTerm]_vars /\ WF_vars(Running)

(***************************************************************************)
(* One instance of a fixed-order solver receives MaxSolves solve() calls.  *)
(***************************************************************************)
FixedOrderKinds == {"OrderedKnightWalk"} \cup SearchKinds

\* starts offered in the reuse runs: two corners, the centre, one cell off the board
ReuseStarts(nn) == {<<0, 0>>, <<nn - 1, 0>>, <<nn \div 2, nn \div 2>>, <<nn, nn>>}

InitReuse ==
    /\ \E k \in FixedOrderKinds : \E nn \in 1 .. MaxNReuse :
          \E sp \in (IF k = "BacktrackingSolver" THEN ReuseStarts(nn) ELSE {None}) :
              Constructed(k, nn, sp)
    /\ budget = {MaxCalls}
    /\ solvesLeft = MaxSolves
    /\ EvoIdle
    /\ ManagerIdle
    /\ GuiIdle

NextReuse ==
    \/ \E s \in ReuseStarts(n) : SolveWalk(s)
    \/ \E s \in ReuseStarts(n) : SolveDfs(s)
    \/ \E d \in Deadlines : SolveWarnsdorff(d)
    \/ WalkEnter
    \/ WalkStep
    \/ WalkExit
    \/ Descend
    \/ Backtrack
    \/ SolveFail

SpecReuse == InitReuse /\ [][NextReuse]_vars

(***************************************************************************)
(* BaseSolver and EnhancedGASolver primitives; MobilityManager.            *)
(***************************************************************************)
apply_move(p, move_index) ==
    IF move_index < 0 \/ move_index >= Len(KNIGHT_MOVES)
    THEN p
    ELSE <<p[1] + KNIGHT_MOVES[move_index + 1][1], p[2] + KNIGHT_MOVES[move_index + 1][2]>>

get_valid_moves_from(nn, x, y, vis) ==
    SelectSeq(Destinations(KNIGHT_MOVES, x, y),
              LAMBDA d : is_valid_position(nn, d[1], d[2]) /\ d \notin vis)

\* a mobility count that forgets which cells are visited
MobilityIgnoringVisited(nn, p, vis) ==
    Cardinality({i \in 1 .. 8 :
        LET d == Destinations(KNIGHT_MOVES, p[1], p[2])[i]
        IN  is_valid_position(nn, d[1], d[2])})

_get_mobility(nn, p, vis) ==
    Cardinality({i \in 1 .. 8 :
        LET d == Destinations(KNIGHT_MOVES, p[1], p[2])[i]
        IN  is_valid_position(nn, d[1], d[2]) /\ d \notin vis})

_calculate_mobility(nn, x, y, vis) ==
    Cardinality({i \in 1 .. 8 :
        LET d == Destinations(KNIGHT_MOVES, x, y)[i]
        IN  (0 <= d[1] /\ d[1] < nn /\ 0 <= d[2] /\ d[2] < nn) /\ d \notin vis})

\* MobilityManager.__init__: the cache holds the unvisited cells of the board
_initialize_mobility(nn, vis) ==
    [c \in Cells(nn) \ vis |-> _calculate_mobility(nn, c[1], c[2], vis)]

get_mobility(cache, x, y) == IF <<x, y>> \in DOMAIN cache THEN cache[<<x, y>>] ELSE 0

\* an update that drops the cell moved to and recomputes nothing
DropsMoveOnly(nn, cache, move, vis) == [c \in DOMAIN cache \ {move} |-> cache[c]]

update_after_move(nn, cache, move, vis) ==
    LET touched == Range(Destinations(KNIGHT_MOVES, move[1], move[2]))
    IN  [c \in DOMAIN cache \ {move} |->
            IF c \in touched THEN _calculate_mobility(nn, c[1], c[2], vis) ELSE cache[c]]

(***************************************************************************)
(* Probes of the degree primitives: cells are visited one by one, then the *)
(* degree of one cell is asked of every implementation.                    *)
(***************************************************************************)
NoProbe == [recorded |-> FALSE]

\* a board on which exactly the cells of vis carry a step number
BoardOf(nn, vis) == [c \in Cells(nn) |-> IF c \in vis THEN 0 ELSE -1]

\* the search variables of an instance that is not searching
SearchIdle(k, nn) ==
    /\ Constructed(k, nn, None)
    /\ budget = NoBudget
    /\ solvesLeft = 0

evoRest == <<population, generation, generations, population_size, best_fitness, best_path,
             belief_space, use_warnsdorff, dec, work>>

InitDegree ==
    /\ \E nn \in 1 .. MaxNDegree : SearchIdle("Primitives", nn)
    /\ population = <<>>
    /\ generation = 0
    /\ generations = 0
    /\ population_size = 0
    /\ best_fitness = 0
    /\ best_path = <<>>
    /\ belief_space = <<>>
    /\ use_warnsdorff = FALSE
    /\ dec = <<>>
    /\ work = <<>>
    /\ visited = {}
    /\ probe = NoProbe
    /\ ManagerIdle
    /\ GuiIdle

Visit(c) ==
    /\ ~probe.recorded
    /\ Cardinality(visited) < MaxVisited
    /\ c \notin visited
    /\ visited' = visited \cup {c}
    /\ probe' = NoProbe
    /\ UNCHANGED <<mgrVars, guiVars, btVars, evoRest>>

ProbeDegree(p) ==
    /\ ~probe.recorded
    /\ probe' = [recorded |-> TRUE,
                 pos |-> p,
                 get_degree |-> get_degree(n, BoardOf(n, visited), p[1], p[2]),
                 enh_get_degree |-> enh_get_degree(n, BoardOf(n, visited), p[1], p[2]),
                 get_mobility |-> _get_mobility(n, p, visited),
                 cached |-> get_mobility(_initialize_mobility(n, visited), p[1], p[2])]
    /\ UNCHANGED <<mgrVars, guiVars, btVars, evoRest, visited>>

NextDegree ==
    \/ \E c \in Cells(n) : Visit(c)
    \/ \E p \in Cells(n) : ProbeDegree(p)

SpecDegree == InitDegree /\ [][NextDegree]_vars

(***************************************************************************)
(* Exact arithmetic for the float-valued quantities: <<num, den>>, den > 0.*)
(***************************************************************************)
Rat(i) == <<i, 1>>

RatLess(a, b) == a[1] * b[2] < b[1] * a[2]

RatEq(a, b) == a[1] * b[2] = b[1] * a[2]

RatLeq(a, b) == a[1] * b[2] <= b[1] * a[2]

RatSub(a, b) == <<a[1] * b[2] - b[1] * a[2], a[2] * b[2]>>

Min(a, b) == IF a < b THEN a ELSE b

\* sorted(range(len(f)), key=lambda i: f[i], reverse=True): descending and stable
RECURSIVE SortedDescending(_, _)
SortedDescending(f, todo) ==
    IF todo = {} THEN <<>>
    ELSE LET best == CHOOSE i \in todo :
                        \A j \in todo : RatLess(f[j], f[i]) \/ (RatEq(f[j], f[i]) /\ i <= j)
         IN  <<best>> \o SortedDescending(f, todo \ {best})

sorted_indices(fitness_scores) == SortedDescending(fitness_scores, DOMAIN fitness_scores)

(***************************************************************************)
(* BeliefSpace.                                                            *)
(***************************************************************************)
NewBeliefSpace(nn) ==
    [n |-> nn,
     move_success |-> [i \in 0 .. 7 |-> 0],
     move_usage |-> [i \in 0 .. 7 |-> 0],
     mobility_map |-> <<>>,
     best_individuals |-> <<>>,
     generation_count |-> 0]

CountGene(chromosome, m) == Cardinality({k \in DOMAIN chromosome : chromosome[k] = m})

\* a visit that is counted only when it was not a success
RecordVisitMiscounted(entry, good) ==
    [visits |-> IF good THEN entry.visits ELSE entry.visits + 1,
     success |-> IF good THEN entry.success + 1 ELSE entry.success]

\* mobility_map[pos]['visits'] += 1, and ['success'] += 1 for a path covering 80% of the board
RecordVisit(entry, good) ==
    [visits |-> entry.visits + 1,
     success |-> IF good THEN entry.success + 1 ELSE entry.success]

\* the loop `for pos in path` of update
RECURSIVE LearnPositions(_, _, _, _)
LearnPositions(map, p, j, good) ==
    IF j > Len(p) THEN map
    ELSE LET pos == p[j]
             entry == IF pos \in DOMAIN map THEN map[pos] ELSE [visits |-> 0, success |-> 0]
         IN  LearnPositions([q \in DOMAIN map \cup {pos} |->
                                IF q = pos THEN RecordVisit(entry, good) ELSE map[q]],
                            p, j + 1, good)

\* the loop over the top 5 performers of update
RECURSIVE LearnFromTop(_, _, _, _, _, _)
LearnFromTop(bs, pop, fit, paths, order, i) ==
    IF i > Min(5, Len(order)) THEN bs
    ELSE LET idx == order[i]
             used == [m \in 0 .. 7 |-> bs.move_usage[m] + CountGene(pop[idx], m)]
             succeeded == [m \in 0 .. 7 |->
                              IF RatLess(Rat(300), fit[idx])
                              THEN bs.move_success[m] + CountGene(pop[idx], m)
                              ELSE bs.move_success[m]]
             good == 10 * Len(paths[idx]) >= bs.n * bs.n * 8
             map == LearnPositions(bs.mobility_map, paths[idx], 1, good)
         IN  LearnFromTop([bs EXCEPT !.move_usage = used, !.move_success = succeeded,
                                     !.mobility_map = map],
                          pop, fit, paths, order, i + 1)

update(bs, pop, fit, paths) ==
    LET order == sorted_indices(fit)
        archive == [i \in 1 .. Min(3, Len(order)) |->
                       [chromosome |-> pop[order[i]], fitness |-> fit[order[i]],
                        path |-> paths[order[i]]]]
    IN  LearnFromTop([bs EXCEPT !.generation_count = @ + 1, !.best_individuals = archive],
                     pop, fit, paths, order, 1)

get_position_difficulty(bs, pos) ==
    IF pos \notin DOMAIN bs.mobility_map THEN <<1, 2>>
    ELSE LET visits == bs.mobility_map[pos].visits
             success == bs.mobility_map[pos].success
         IN  IF visits = 0 THEN <<1, 2>> ELSE RatSub(Rat(1), <<success, visits>>)

(***************************************************************************)
(* One belief space receives updates, then one position is asked for.      *)
(***************************************************************************)
CellSeq(nn) == [k \in 1 .. nn * nn |-> <<(k - 1) \div nn, (k - 1) % nn>>]

\* decoded paths offered to update: a one-cell path and a path over the whole board
BeliefPaths(nn) == {SubSeq(CellSeq(nn), 1, 1), CellSeq(nn)}

BeliefIndividuals(nn) ==
    {[chromosome |-> c[1], fitness |-> c[2], path |-> p] :
        c \in {<< <<0, 7>>, Rat(0) >>, << <<7, 8>>, Rat(301) >>}, p \in BeliefPaths(nn)}

\* generations of one or two individuals
BeliefGenerations(nn) ==
    {<<a>> : a \in BeliefIndividuals(nn)} \cup (BeliefIndividuals(nn) \X BeliefIndividuals(nn))

\* positions asked for: the board and one cell off it
ProbePositions(nn) == Cells(nn) \cup {<<nn, nn>>}

evoBeliefRest == <<population, generation, generations, population_size, best_fitness,
                   best_path, use_warnsdorff, dec, work, visited>>

InitBelief ==
    /\ \E nn \in 1 .. MaxNBelief :
          /\ SearchIdle("BeliefSpace", nn)
          /\ belief_space = NewBeliefSpace(nn)
    /\ population = <<>>
    /\ generation = 0
    /\ generations = 0
    /\ population_size = 0
    /\ best_fitness = 0
    /\ best_path = <<>>
    /\ use_warnsdorff = FALSE
    /\ dec = <<>>
    /\ work = <<>>
    /\ visited = {}
    /\ probe = NoProbe
    /\ ManagerIdle
    /\ GuiIdle

BeliefUpdate(g) ==
    /\ ~probe.recorded
    /\ belief_space.generation_count < MaxUpdates
    /\ belief_space' = update(belief_space,
                              [i \in DOMAIN g |-> g[i].chromosome],
                              [i \in DOMAIN g |-> g[i].fitness],
                              [i \in DOMAIN g |-> g[i].path])
    /\ UNCHANGED <<mgrVars, guiVars, btVars, evoBeliefRest, probe>>

ProbeDifficulty(p) ==
    /\ ~probe.recorded
    /\ probe' = [recorded |-> TRUE, pos |-> p,
                 difficulty |-> get_position_difficulty(belief_space, p)]
    /\ UNCHANGED <<mgrVars, guiVars, btVars, evoBeliefRest, belief_space>>

NextBelief ==
    \/ \E g \in BeliefGenerations(n) : BeliefUpdate(g)
    \/ \E p \in ProbePositions(n) : ProbeDifficulty(p)

SpecBelief == InitBelief /\ [][NextBelief]_vars

(***************************************************************************)
(* decode of SimpleGASolver and of CulturalAlgorithmSolver.  The locals of *)
(* a running decode are a record: path, visited, current_pos, the          *)
(* MobilityManager's mobility_cache, whether the loop has been left, and   *)
(* (history) whether a move was chosen by the repair branch.               *)
(***************************************************************************)
GAKinds == {"SimpleGASolver", "CulturalAlgorithmSolver"}

DecodeStart(k, nn, start) ==
    [path |-> <<start>>,
     visited |-> {start},
     current_pos |-> start,
     mobility_cache |-> IF k = "CulturalAlgorithmSolver"
                        THEN _initialize_mobility(nn, {start}) ELSE <<>>,
     repaired |-> FALSE,
     stopped |-> FALSE]

\* path.append(p); visited.add(p); current_pos = p; mobility_manager.update_after_move(p, visited)
Accept(k, nn, st, p) ==
    [st EXCEPT !.path = Append(@, p),
               !.visited = @ \cup {p},
               !.current_pos = p,
               !.mobility_cache = IF k = "CulturalAlgorithmSolver"
                                  THEN update_after_move(nn, @, p, st.visited \cup {p})
                                  ELSE @]

\* a gene test that forgets the visited set
AcceptsRevisit(nn, next_pos, vis) == is_valid_position(nn, next_pos[1], next_pos[2])

\* a gene test that forgets the edge of the board
AcceptsOffBoard(nn, next_pos, vis) == next_pos \notin vis

\* self.is_valid_position(next_pos[0], next_pos[1]) and next_pos not in visited
gene_is_usable(nn, next_pos, vis) ==
    is_valid_position(nn, next_pos[1], next_pos[2]) /\ next_pos \notin vis

\* `if score > max_score: max_score = score; best = candidate` over the candidates; 0 is None
RECURSIVE ScanBest(_, _, _, _)
ScanBest(scores, i, max_score, best) ==
    IF i > Len(scores) THEN best
    ELSE IF RatLess(max_score, scores[i])
         THEN ScanBest(scores, i + 1, scores[i], i)
         ELSE ScanBest(scores, i + 1, max_score, best)

future_moves(nn, candidate, vis) ==
    Len(get_valid_moves_from(nn, candidate[1], candidate[2], vis \cup {candidate}))

\* SimpleGASolver.decode, the repair branch
simple_repair(nn, valid_moves, vis) ==
    LET tried == SubSeq(valid_moves, 1, Min(3, Len(valid_moves)))
        best == ScanBest([i \in DOMAIN tried |-> Rat(future_moves(nn, tried[i], vis))],
                         1, Rat(-1), 0)
    IN  IF best = 0 THEN valid_moves[1] ELSE tried[best]

\* score = mobility * 2 + future_moves - difficulty * 10
cultural_score(nn, cache, bs, candidate, vis) ==
    LET difficulty == get_position_difficulty(bs, candidate)
        base == get_mobility(cache, candidate[1], candidate[2]) * 2
                + future_moves(nn, candidate, vis)
    IN  <<base * difficulty[2] - 10 * difficulty[1], difficulty[2]>>

best_by_score(nn, cache, bs, cands, vis) ==
    LET best == ScanBest([i \in DOMAIN cands |-> cultural_score(nn, cache, bs, cands[i], vis)],
                         1, Rat(-1), 0)
    IN  IF best = 0 THEN cands[1] ELSE cands[best]

\* CulturalAlgorithmSolver.decode, the repair branch
cultural_repair(nn, cache, bs, uw, valid_moves, vis) ==
    IF uw
    THEN LET mobility(m) == get_mobility(cache, m[1], m[2])
             min_mobility == CHOOSE k \in 0 .. 8 :
                                /\ \E i \in DOMAIN valid_moves : mobility(valid_moves[i]) = k
                                /\ \A i \in DOMAIN valid_moves : mobility(valid_moves[i]) >= k
             best_moves == SelectSeq(valid_moves, LAMBDA m : mobility(m) = min_mobility)
         IN  IF Len(best_moves) = 1 THEN best_moves[1]
             ELSE best_by_score(nn, cache, bs, best_moves, vis)
    ELSE best_by_score(nn, cache, bs, valid_moves, vis)

\* CulturalAlgorithmSolver.decode: the test made on a usable gene
cultural_accepts(nn, st, bs, uw, next_pos) ==
    LET mobility == IF uw THEN get_mobility(st.mobility_cache, next_pos[1], next_pos[2])
                    ELSE _get_mobility(nn, next_pos, st.visited \cup {next_pos})
        difficulty == get_position_difficulty(bs, next_pos)
    IN  mobility > 0 \/ (Cardinality(st.visited) < 5 /\ RatLess(difficulty, <<7, 10>>))

\* a loop body without the repair branch: an unusable gene ends the decoding
StopsOnUnusableGene(k, nn, st, move_index, bs, uw) ==
    LET next_pos == apply_move(st.current_pos, move_index)
    IN  IF Cardinality(st.visited) < nn * nn /\ gene_is_usable(nn, next_pos, st.visited)
        THEN Accept(k, nn, st, next_pos)
        ELSE [st EXCEPT !.stopped = TRUE]

\* one iteration of the loop `for move_index in chromosome`
decode_step(k, nn, st, move_index, bs, uw) ==
    IF Cardinality(st.visited) >= nn * nn THEN [st EXCEPT !.stopped = TRUE]
    ELSE LET next_pos == apply_move(st.current_pos, move_index)
             usable == gene_is_usable(nn, next_pos, st.visited)
             valid_moves == get_valid_moves_from(nn, st.current_pos[1], st.current_pos[2],
                                                 st.visited)
         IN  IF usable /\ (k # "CulturalAlgorithmSolver"
                           \/ cultural_accepts(nn, st, bs, uw, next_pos))
             THEN Accept(k, nn, st, next_pos)
             ELSE IF valid_moves = <<>> THEN [st EXCEPT !.stopped = TRUE]
             ELSE IF k # "CulturalAlgorithmSolver"
                  THEN Accept(k, nn, [st EXCEPT !.repaired = TRUE],
                              simple_repair(nn, valid_moves, st.visited))
                  ELSE Accept(k, nn, [st EXCEPT !.repaired = TRUE],
                              cultural_repair(nn, st.mobility_cache, bs, uw, valid_moves,
                                              st.visited))

RECURSIVE decode_from(_, _, _, _, _, _, _)
decode_from(k, nn, st, chromosome, i, bs, uw) ==
    IF i > Len(chromosome) \/ st.stopped THEN st
    ELSE decode_from(k, nn, decode_step(k, nn, st, chromosome[i], bs, uw),
                     chromosome, i + 1, bs, uw)

decode(k, nn, chromosome, start, bs, uw) ==
    decode_from(k, nn, DecodeStart(k, nn, start), chromosome, 1, bs, uw).path

(***************************************************************************)
(* One decode() call, its chromosome supplied gene by gene: every prefix   *)
(* of the run is the decode of the genes consumed so far.                  *)
(***************************************************************************)
\* genes offered to decode: the eight move indices and the two nearest invalid ones
GeneChoices == -1 .. 8

\* every cell recorded with one visit that was, or was not, a success
UniformBelief(nn, good) ==
    [NewBeliefSpace(nn) EXCEPT
        !.generation_count = 1,
        !.mobility_map = [c \in Cells(nn) |-> [visits |-> 1, success |-> IF good THEN 1 ELSE 0]]]

\* only the cells of the first row recorded, as failures
FirstRowBelief(nn) ==
    [NewBeliefSpace(nn) EXCEPT
        !.generation_count = 1,
        !.mobility_map = [c \in {0} \X (0 .. nn - 1) |-> [visits |-> 2, success |-> 0]]]

\* starts offered to decode: the board and one cell off it
DecodeStarts(nn) == Cells(nn) \cup {<<-1, 1>>}

DecodeBeliefs(k, nn) ==
    IF k = "SimpleGASolver" THEN {NewBeliefSpace(nn)}
    ELSE {NewBeliefSpace(nn), UniformBelief(nn, FALSE), FirstRowBelief(nn)}

InitDecode ==
    /\ \E k \in GAKinds : \E nn \in 1 .. MaxNDecode : \E s \in DecodeStarts(nn) :
          /\ Constructed(k, nn, s)
          /\ belief_space \in DecodeBeliefs(k, nn)
          /\ use_warnsdorff \in (IF k = "SimpleGASolver" THEN {FALSE} ELSE BOOLEAN)
          /\ dec = DecodeStart(k, nn, s)
    /\ budget = NoBudget
    /\ solvesLeft = 0
    /\ population = <<>>
    /\ generation = 0
    /\ generations = 0
    /\ population_size = 0
    /\ best_fitness = 0
    /\ best_path = <<>>
    /\ work = <<>>
    /\ visited = {}
    /\ probe = NoProbe
    /\ ManagerIdle
    /\ GuiIdle

DecodeGene(g) ==
    /\ ~dec.stopped
    /\ Len(dec.path) <= MaxGenes
    /\ dec' = decode_step(kind, n, dec, g, belief_space, use_warnsdorff)
    /\ UNCHANGED <<mgrVars, guiVars, btVars, population, generation, generations, population_size,
                   best_fitness, best_path, belief_space, use_warnsdorff, work, visited,
                   probe>>

NextDecode == \E g \in GeneChoices : DecodeGene(g)

SpecDecode == InitDecode /\ [][NextDecode]_vars

(***************************************************************************)
(* The evolutionary solvers: SimpleGASolver, and CulturalAlgorithmSolver   *)
(* with the operators it inherits from EnhancedGASolver.  Every random     *)
(* draw is a choice from a set, so an operator yields the set of its       *)
(* possible results.                                                       *)
(***************************************************************************)
elitism_count == 2

\* the classes whose evolve is run: GAKinds and the Level-3 CulturalGASolver
EvolveKinds == GAKinds \cup {"CulturalGASolver"}

\* the moves random.randint(0, 7) yields in the evolutionary runs
RandomGenes == {2, 5}

Max(a, b) == IF a < b THEN b ELSE a

RatAbs(a) == <<Abs(a[1]), a[2]>>

\* legal_transitions of fitness
legal_transitions(p) == Cardinality({i \in 1 .. Len(p) - 1 : IsKnightStep(p[i], p[i + 1])})

\* SimpleGASolver.fitness of a decoded path
simple_fitness(p) ==
    IF p = <<>> THEN Rat(0) ELSE Rat(Len(p) * 10 + legal_transitions(p) * 5)

\* the segment bookkeeping of CulturalAlgorithmSolver.fitness: consecutive_segments
RECURSIVE SegmentSum(_, _, _, _)
SegmentSum(p, i, current_segment, consecutive_segments) ==
    IF i >= Len(p) THEN consecutive_segments + current_segment
    ELSE IF IsKnightStep(p[i], p[i + 1])
         THEN SegmentSum(p, i + 1, current_segment + 1, consecutive_segments)
         ELSE SegmentSum(p, i + 1, 1, consecutive_segments + current_segment)

RECURSIVE SumSeq(_)
SumSeq(s) == IF s = <<>> THEN 0 ELSE s[1] + SumSeq(Tail(s))

\* CulturalAlgorithmSolver.fitness of a decoded path; mobility_weight is 2.0
cultural_fitness(nn, p) ==
    IF p = <<>> THEN Rat(0)
    ELSE LET unique_count == Cardinality(Range(p))
             mobility == [i \in DOMAIN p |->
                             _get_mobility(nn, p[i], Range(SubSeq(p, 1, i)))]
             low_degree_visits == Cardinality({i \in DOMAIN p : mobility[i] <= 2})
             repeat_penalty == IF Len(p) > unique_count
                               THEN (Len(p) - unique_count) * 15 ELSE 0
             whole == unique_count * 20 + legal_transitions(p) * 10
                      + SegmentSum(p, 1, 1, 0) * 4 + low_degree_visits * 5 - repeat_penalty
                      + (IF unique_count = nn * nn THEN 500 ELSE 0)
         IN  <<whole * Len(p) + SumSeq(mobility) * 2, Len(p)>>

\* EnhancedGASolver.fitness of a decoded path, inherited by CulturalGASolver
enhanced_fitness(nn, p) ==
    IF p = <<>> THEN Rat(0)
    ELSE LET mobility == [i \in DOMAIN p |->
                             _get_mobility(nn, p[i], Range(SubSeq(p, 1, i)))]
             repeat_penalty == (Len(p) - Cardinality(Range(p))) * 5
             whole == Len(p) * 10 + legal_transitions(p) * 5 - repeat_penalty
         IN  <<whole * Len(p) + SumSeq(mobility) * 2, Len(p)>>

\* fitness, from `path = self.decode(chromosome, start_pos)` on
path_fitness(k, nn, p) ==
    IF k = "SimpleGASolver" THEN simple_fitness(p)
    ELSE IF k = "CulturalGASolver" THEN enhanced_fitness(nn, p)
    ELSE cultural_fitness(nn, p)

fitness(k, nn, chromosome, start, bs, uw) ==
    path_fitness(k, nn, decode(k, nn, chromosome, start, bs, uw))

\* AdvancedBeliefSpace(n); the transition and pattern tables, which nothing reads, are left out
NewAdvancedBeliefSpace(nn) ==
    [n |-> nn,
     move_success |-> [i \in 0 .. 7 |-> 0],
     move_usage |-> [i \in 0 .. 7 |-> 0],
     mobility_map |-> <<>>,
     best_individuals |-> <<>>,
     generation_count |-> 0,
     stagnation_counter |-> 0,
     last_best_fitness |-> Rat(0)]

\* fitness_scores.index(max(fitness_scores))
best_index(fitness_scores) ==
    CHOOSE i \in DOMAIN fitness_scores :
        /\ \A j \in DOMAIN fitness_scores : RatLeq(fitness_scores[j], fitness_scores[i])
        /\ \A j \in 1 .. i - 1 : RatLess(fitness_scores[j], fitness_scores[i])

\* an update whose stagnation counter decays without the floor at 0
DecaysBelowZero(bs, pop, fit, paths) ==
    LET current_best == fit[best_index(fit)]
        learnt == update(bs, pop, fit, paths)
        stalled == RatLess(RatAbs(RatSub(current_best, bs.last_best_fitness)), Rat(1))
    IN  [learnt EXCEPT !.stagnation_counter = IF stalled THEN @ + 1 ELSE @ - 1,
                       !.last_best_fitness = current_best]

\* AdvancedBeliefSpace.update
advanced_update(bs, pop, fit, paths) ==
    LET current_best == fit[best_index(fit)]
        learnt == update(bs, pop, fit, paths)
        stalled == RatLess(RatAbs(RatSub(current_best, bs.last_best_fitness)), Rat(1))
    IN  [learnt EXCEPT !.stagnation_counter = IF stalled THEN @ + 1 ELSE Max(0, @ - 1),
                       !.last_best_fitness = current_best]

\* min(1.0, self.stagnation_counter / 30.0)
get_stagnation_level(bs) ==
    IF RatLess(Rat(1), <<bs.stagnation_counter, 30>>) THEN Rat(1)
    ELSE <<bs.stagnation_counter, 30>>

(***************************************************************************)
(* One AdvancedBeliefSpace receives a sequence of updates, each from a     *)
(* generation of one individual whose fitness is the generation's best.    *)
(***************************************************************************)
\* best fitnesses of the generations: equal, half a unit apart, or far apart
StagnationFitnesses == {Rat(0), <<1, 2>>, Rat(301)}

StagnationGenerations(nn) ==
    {<<[chromosome |-> <<0, 7>>, fitness |-> f, path |-> SubSeq(CellSeq(nn), 1, 1)]>>
     : f \in StagnationFitnesses}

InitStagnation ==
    /\ \E nn \in 1 .. MaxNBelief :
          /\ SearchIdle("AdvancedBeliefSpace", nn)
          /\ belief_space = NewAdvancedBeliefSpace(nn)
    /\ population = <<>>
    /\ generation = 0
    /\ generations = 0
    /\ population_size = 0
    /\ best_fitness = 0
    /\ best_path = <<>>
    /\ use_warnsdorff = FALSE
    /\ dec = <<>>
    /\ work = <<>>
    /\ visited = {}
    /\ probe = NoProbe
    /\ ManagerIdle
    /\ GuiIdle

AdvancedUpdate(g) ==
    /\ belief_space.generation_count < MaxStagnationUpdates
    /\ belief_space' = advanced_update(belief_space,
                                       [i \in DOMAIN g |-> g[i].chromosome],
                                       [i \in DOMAIN g |-> g[i].fitness],
                                       [i \in DOMAIN g |-> g[i].path])
    /\ UNCHANGED <<mgrVars, guiVars, btVars, evoBeliefRest, probe>>

NextStagnation == \E g \in StagnationGenerations(n) : AdvancedUpdate(g)

SpecStagnation == InitStagnation /\ [][NextStagnation]_vars

\* an elite taken from the front of the population, whatever the fitness
FirstInPopulation(pop, fit) == SubSeq(pop, 1, Min(elitism_count, Len(pop)))

\* the elite of select_parents and of evolve
elite(pop, fit) ==
    LET order == sorted_indices(fit)
    IN  [i \in 1 .. Min(elitism_count, Len(order)) |-> pop[order[i]]]

\* tournament_selection / _diversity_tournament: the chromosomes that can win
tournament_winners(pop, fit) ==
    LET size == Min(3, Len(pop))
    IN  {pop[i] : i \in {w \in DOMAIN pop :
            \E sample \in SUBSET DOMAIN pop :
                /\ Cardinality(sample) = size
                /\ w \in sample
                /\ \A j \in sample : RatLeq(fit[j], fit[w])}}

\* select_parents: the lists random.choice(parents) may be drawn from, as sets
select_parents(pop, fit, size) ==
    LET chosen == Range(elite(pop, fit))
        slots == Max(0, size \div 2 - Len(elite(pop, fit)))
    IN  IF slots = 0 THEN {chosen}
        ELSE {chosen \cup w : w \in {v \in SUBSET tournament_winners(pop, fit) :
                                        v # {} /\ Cardinality(v) <= slots}}

\* the length fix at the end of _repair_chromosome and _heuristic_repair
RECURSIVE fix_length(_, _)
fix_length(repaired, length) ==
    IF Len(repaired) > length THEN {SubSeq(repaired, 1, length)}
    ELSE IF Len(repaired) = length THEN {repaired}
    ELSE UNION {fix_length(Append(repaired, g), length) : g \in RandomGenes}

\* the gene loop of _repair_chromosome (SimpleGASolver) and _heuristic_repair (inherited
\* by CulturalAlgorithmSolver)
RECURSIVE repair_genes(_, _, _, _)
repair_genes(k, chromosome, i, repaired) ==
    IF i > Len(chromosome) THEN {repaired}
    ELSE LET gene == chromosome[i]
             kept == IF ~(0 <= gene /\ gene <= 7) THEN RandomGenes
                     ELSE IF k # "SimpleGASolver" /\ i > 1 /\ repaired # <<>>
                             /\ repaired[Len(repaired)] = gene
                          THEN IF RandomGenes \ {gene} = {} THEN {gene}
                               ELSE RandomGenes \ {gene}
                          ELSE {gene}
         IN  UNION {repair_genes(k, chromosome, i + 1, Append(repaired, g)) : g \in kept}

repair(k, nn, chromosome) ==
    UNION {fix_length(r, nn * nn) : r \in repair_genes(k, chromosome, 1, <<>>)}

\* the Python slice s[a:b], a and b counted from 0 and clipped to the list
Slice(s, a, b) == SubSeq(s, Min(a, Len(s)) + 1, Min(b, Len(s)))

\* crossover: the pairs <<child1, child2>> it can return
crossover(k, nn, p1, p2) ==
    IF Len(p1) < 2 \/ Len(p2) < 2 THEN {<<p1, p2>>}
    ELSE UNION {
           LET child1 == Slice(p1, 0, point[1]) \o Slice(p2, point[1], point[2])
                         \o Slice(p1, point[2], Len(p1))
               child2 == Slice(p2, 0, point[1]) \o Slice(p1, point[1], point[2])
                         \o Slice(p2, point[2], Len(p2))
           IN  repair(k, nn, child1) \X repair(k, nn, child2)
           : point \in {pt \in (1 .. Len(p1) - 2) \X (2 .. Len(p1)) : pt[1] + 1 <= pt[2]}}

\* `move_scores[0][0]` of CulturalAlgorithmSolver.mutate: the score random.random() +
\* (move_idx % 3) is largest for a move with move_idx % 3 = 2 other than the previous gene
varied_moves(c, pos) ==
    {g \in 0 .. 7 : g % 3 = 2 /\ (pos > 1 => g # c[pos - 1])}

\* mutated[pos] = ...: SimpleGASolver draws a move other than the previous gene;
\* CulturalAlgorithmSolver takes a suggested or random move (suggest_move draws at random
\* with probability at least 0.2) or a varied one
mutate_gene(k, c, pos) ==
    {[c EXCEPT ![pos] = g] :
        g \in IF k = "SimpleGASolver"
              THEN IF pos > 1 THEN RandomGenes \ {c[pos - 1]} ELSE RandomGenes
              ELSE RandomGenes \cup varied_moves(c, pos)}

\* one pass of the loop `for _ in range(num_mutations)` of mutate, on every chromosome of cs
mutate_once(k, cs) == UNION {UNION {mutate_gene(k, c, pos) : pos \in DOMAIN c} : c \in cs}

RECURSIVE mutate_times(_, _, _)
mutate_times(k, cs, num_mutations) ==
    IF num_mutations = 0 THEN cs ELSE mutate_times(k, mutate_once(k, cs), num_mutations - 1)

\* mutate applied to each chromosome of cs: unchanged, or (when the run lets mutate pass
\* its rate check, `redraws`) num_mutations genes redrawn;
\* SimpleGASolver draws 1..3, EnhancedGASolver.mutate (CulturalGASolver) 1..2,
\* CulturalAlgorithmSolver 1..3 when the stagnation level exceeds 0.5 and 1..2 otherwise
mutate(k, cs, bs, redraws) ==
    LET most == IF k = "SimpleGASolver" THEN 3
                ELSE IF k = "CulturalGASolver" THEN 2
                ELSE IF RatLess(<<1, 2>>, get_stagnation_level(bs)) THEN 3 ELSE 2
    IN  IF redraws THEN cs \cup UNION {mutate_times(k, cs, m) : m \in 1 .. most} ELSE cs

\* p1 = random.choice(parents); p2 = random.choice(parents); crossover(p1, p2)
offspring(k, nn, parents) ==
    UNION {crossover(k, nn, pp[1], pp[2]) : pp \in parents \X parents}

\* the loop `while len(new_population) < self.population_size` of evolve
RECURSIVE breed(_, _, _, _, _, _, _)
breed(k, nn, parents, bs, size, redraws, new_population) ==
    IF Len(new_population) >= size THEN {new_population}
    ELSE IF Len(new_population) + 1 < size
    THEN UNION {UNION {breed(k, nn, parents, bs, size, redraws, new_population \o pair)
                       : pair \in mutate(k, {children[1]}, bs, redraws)
                                  \X mutate(k, {children[2]}, bs, redraws)}
                : children \in offspring(k, nn, parents)}
    ELSE {Append(new_population, child1)
          : child1 \in mutate(k, {children[1] : children \in offspring(k, nn, parents)},
                              bs, redraws)}

\* population after one generation of evolve
next_population(k, nn, pop, fit, bs, size, redraws) ==
    UNION {breed(k, nn, parents, bs, size, redraws, elite(pop, fit))
           : parents \in select_parents(pop, fit, size)}

\* initialize_population, every chromosome one drawn gene repeated
initial_chromosomes(nn) == {[i \in 1 .. nn * nn |-> g] : g \in RandomGenes}

initialize_population(nn, size) == [1 .. size -> initial_chromosomes(nn)]

\* population[i][k] != population[j][k] is evaluated for a k that population[j] lacks:
\* _calculate_diversity raises IndexError
DiversityRaises(pop) ==
    \E i, j \in 1 .. Min(10, Len(pop)) : i < j /\ Len(pop[i]) > Len(pop[j])

\* _calculate_diversity when it returns: differing genes per compared pair
_calculate_diversity(pop) ==
    IF Len(pop) < 2 THEN Rat(0)
    ELSE LET sample == 1 .. Min(10, Len(pop))
             longest == CHOOSE l \in {Len(pop[i]) : i \in sample} :
                            \A i \in sample : Len(pop[i]) <= l
         IN  <<Cardinality({t \in sample \X sample \X (1 .. longest) :
                                /\ t[1] < t[2]
                                /\ t[3] <= Len(pop[t[1]])
                                /\ pop[t[1]][t[3]] # pop[t[2]][t[3]]}),
               Cardinality({t \in sample \X sample : t[1] < t[2]})>>

\* _find_bad_moves: the genes, counted from 1, that leave the board or revisit a cell
RECURSIVE _find_bad_moves(_, _, _, _, _, _)
_find_bad_moves(nn, chromosome, i, current_pos, vis, bad_move_indices) ==
    IF i > Len(chromosome) \/ Cardinality(vis) >= nn * nn THEN bad_move_indices
    ELSE LET next_pos == apply_move(current_pos, chromosome[i])
         IN  IF ~is_valid_position(nn, next_pos[1], next_pos[2]) \/ next_pos \in vis
             THEN _find_bad_moves(nn, chromosome, i + 1, current_pos, vis,
                                  bad_move_indices \cup {i})
             ELSE _find_bad_moves(nn, chromosome, i + 1, next_pos, vis \cup {next_pos},
                                  bad_move_indices)

\* test_chromosome[i], test_chromosome[j] = test_chromosome[j], test_chromosome[i]
Swap(c, i, j) == [c EXCEPT ![i] = c[j], ![j] = c[i]]

\* test_chromosome[i:j] = test_chromosome[i:j][::-1]; here i and j are the first and the
\* last gene reversed, counted from 1
Reverse(c, i, j) == [k \in DOMAIN c |-> IF i <= k /\ k <= j THEN c[i + j - k] ELSE c[k]]

\* the test chromosomes one attempt of a strategy of local_search can build from
\* best_chromosome; suggest_move, like random.randint(0, 7), yields RandomGenes
test_chromosomes(strategy, nn, c, start) ==
    IF strategy = 1
    THEN IF Len(c) < 5 THEN {}
         ELSE {Swap(c, ij[1], ij[2]) :
                  ij \in {e \in (2 .. Len(c) - 3) \X (4 .. Len(c)) :
                             e[1] + 2 <= e[2] /\ e[2] <= Min(e[1] + 8, Len(c))}}
    ELSE IF strategy = 2
    THEN IF Len(c) < 6 THEN {}
         ELSE {Reverse(c, ij[1], ij[2]) :
                  ij \in {e \in (2 .. Len(c) - 4) \X (4 .. Len(c) - 1) :
                             e[1] + 2 <= e[2] /\ e[2] <= Min(e[1] + 9, Len(c) - 1)}}
    ELSE IF strategy = 3
    THEN {[c EXCEPT ![pos] = suggested] : pos \in DOMAIN c, suggested \in RandomGenes}
    ELSE {Swap(c, pw[1], pw[2]) :
             pw \in {e \in _find_bad_moves(nn, c, 1, start, {start}, {}) \X DOMAIN c :
                        e[1] # e[2]}}

\* an attempt that also keeps a test chromosome of equal fitness
AcceptsTies(nn, start, bs, uw, state, strategy) ==
    LET tests == test_chromosomes(strategy, nn, state.best, start)
    IN  IF tests = {} THEN {state}
        ELSE {IF RatLeq(state.fit, e[2])
              THEN [state EXCEPT !.best = e[1], !.fit = e[2], !.found = TRUE]
              ELSE state
              : e \in {<<c, fitness("CulturalAlgorithmSolver", nn, c, start, bs, uw)>>
                       : c \in tests}}

\* one attempt: the test chromosome replaces best_chromosome when it is strictly fitter
attempt(nn, start, bs, uw, state, strategy) ==
    LET tests == test_chromosomes(strategy, nn, state.best, start)
    IN  IF tests = {} THEN {state}
        ELSE {IF RatLess(state.fit, e[2])
              THEN [state EXCEPT !.best = e[1], !.fit = e[2], !.found = TRUE]
              ELSE state
              : e \in {<<c, fitness("CulturalAlgorithmSolver", nn, c, start, bs, uw)>>
                       : c \in tests}}

\* `left` attempts of one strategy, from every state of `states`
RECURSIVE attempts(_, _, _, _, _, _, _)
attempts(nn, start, bs, uw, states, strategy, left) ==
    IF left = 0 THEN states
    ELSE UNION {IF next = states THEN states
                ELSE attempts(nn, start, bs, uw, next, strategy, left - 1)
                : next \in {UNION {attempt(nn, start, bs, uw, state, strategy)
                                   : state \in states}}}

\* the fourth strategy leaves its loop at the first improvement, and an attempt that draws
\* swap_with_idx == bad_move_idx changes nothing
bad_move_swap(nn, start, bs, uw, states) ==
    states \cup UNION {attempt(nn, start, bs, uw, state, 4) : state \in states}

\* one pass of the loop `while improvement_found and iterations < max_iterations`
local_search_pass(nn, start, bs, uw, state) ==
    LET swapped == attempts(nn, start, bs, uw,
                            {[state EXCEPT !.found = FALSE, !.iterations = @ + 1]}, 1, 10)
        reversed == attempts(nn, start, bs, uw, swapped, 2, 5)
        replaced == IF bs.generation_count >= 20
                    THEN attempts(nn, start, bs, uw, reversed, 3, 3)
                    ELSE reversed
    IN  bad_move_swap(nn, start, bs, uw, replaced)

RECURSIVE local_search_from(_, _, _, _, _)
local_search_from(nn, start, bs, uw, state) ==
    IF ~state.found \/ state.iterations >= 3 THEN {state}
    ELSE UNION {local_search_from(nn, start, bs, uw, after)
                : after \in local_search_pass(nn, start, bs, uw, state)}

\* the locals of local_search when it returns, for every way its draws can fall
local_search_runs(nn, chromosome, start, bs, uw) ==
    local_search_from(nn, start, bs, uw,
                      [best |-> chromosome,
                       fit |-> fitness("CulturalAlgorithmSolver", nn, chromosome, start,
                                       bs, uw),
                       found |-> TRUE,
                       iterations |-> 0])

\* local_search: the chromosomes it can return
local_search(nn, chromosome, start, bs, uw) ==
    {state.best : state \in local_search_runs(nn, chromosome, start, bs, uw)}

\* local search and diversity injection of CulturalAlgorithmSolver.evolve fall due
LocalSearchDue(g) == g > 20 /\ g % 5 = 0

InjectionDue(g) == g > 30 /\ g % 15 = 0

\* the population and its fitness scores after the local search on the top 3 individuals
after_local_search(k, nn, g, pop, fit, start, bs, uw) ==
    IF k # "CulturalAlgorithmSolver" \/ ~LocalSearchDue(g) THEN {<<pop, fit>>}
    ELSE LET order == sorted_indices(fit)
             top == {order[i] : i \in 1 .. Min(3, Len(order))}
         IN  UNION {
               {<<improved, [i \in DOMAIN pop |->
                               IF i \in top
                               THEN fitness(k, nn, improved[i], start, bs, uw)
                               ELSE fit[i]]>>
                : improved \in {<<>> \o [i \in DOMAIN pop |->
                                            IF i \in top THEN pick[i] ELSE pop[i]]
                                : pick \in {f \in [top -> UNION {found[pop[i]] : i \in top}] :
                                               \A i \in top : f[i] \in found[pop[i]]}}}
               : found \in {[c \in {pop[i] : i \in top} |->
                                local_search(nn, c, start, bs, uw)]}}

\* [random.randint(0, 7) for _ in range(self.n * self.n * 2)], one drawn gene repeated
injected_chromosomes(nn) == {[i \in 1 .. 2 * nn * nn |-> g] : g \in RandomGenes}

\* the population and its fitness scores after the diversity injection
after_injection(k, nn, g, pop, fit, diversity, start, bs, uw) ==
    IF k # "CulturalAlgorithmSolver" \/ ~InjectionDue(g) \/ ~RatLess(diversity, <<3, 10>>)
    THEN {<<pop, fit>>}
    ELSE LET order == sorted_indices(fit)
             num_to_replace == Max(1, Len(pop) \div 5)
             worst == {order[Len(order) + 1 - i] : i \in 1 .. num_to_replace}
         IN  {<<fresh, [i \in DOMAIN pop |->
                          IF i \in worst THEN fitness(k, nn, fresh[i], start, bs, uw)
                          ELSE fit[i]]>>
              : fresh \in {<<>> \o [i \in DOMAIN pop |->
                                       IF i \in worst THEN pick[i] ELSE pop[i]]
                           : pick \in [worst -> injected_chromosomes(nn)]}}

\* nothing done yet by the running solve(): decode() calls made to evaluate the
\* populations, iterations of evolve completed, len(self.generation_best_fitness); call_best_*
\* record the first evaluation of highest fitness made during the call and its path;
\* replaced is the population, with its fitness scores, that the last iteration replaced
NoWork == [decodes |-> 0, generations |-> 0, entries |-> 0,
           call_best_fitness |-> <<0, 1>>, call_best_path |-> <<>>,
           replaced |-> [population |-> <<>>, fitness_scores |-> <<>>]]

(***************************************************************************)
(* solve() up to the first generation of evolve().  SimpleGASolver.solve,  *)
(* which CulturalGASolver inherits, resets best_fitness and best_path;     *)
(* CulturalAlgorithmSolver.solve only forwards to its own evolve, which    *)
(* makes a new belief space.  `initial` is what initialize_population      *)
(* drew.  CulturalGASolver runs the evolve of                              *)
(* EnhancedGASolver: the evolve of level3_cultural_ga.py is a function of  *)
(* the module, not a method of the class.                                  *)
(***************************************************************************)
SolveGA(s, initial) ==
    /\ kind \in EvolveKinds
    /\ pc \in {"idle", "done"}
    /\ solvesLeft > 0
    /\ solvesLeft' = solvesLeft - 1
    /\ start_pos' = s
    /\ best_fitness' = IF kind # "CulturalAlgorithmSolver" THEN Rat(0) ELSE best_fitness
    /\ best_path' = IF kind # "CulturalAlgorithmSolver" THEN <<>> ELSE best_path
    /\ population' = initial
    /\ belief_space' = IF kind # "CulturalAlgorithmSolver" THEN belief_space
                       ELSE NewAdvancedBeliefSpace(n)
    /\ generation' = 0
    /\ work' = NoWork
    /\ pc' = "evolve"
    /\ UNCHANGED <<kind, n, timeout, board, path, recursive_calls, backtrack_count,
                   total_moves, dead_ends_hit, timed_out, stack, result, checks, deadline,
                   budget, pathAtDeadline, firstRun>>
    /\ UNCHANGED <<generations, population_size, use_warnsdorff, dec, visited, probe>>
    /\ UNCHANGED <<mgrVars, guiVars>>

(***************************************************************************)
(* One iteration of `for generation in range(self.generations)`.  It ends  *)
(* the call with an IndexError when _calculate_diversity, called by evolve *)
(* (EnhancedGASolver and CulturalAlgorithmSolver) before the entries are   *)
(* appended and by select_parents after them, meets a chromosome longer    *)
(* than one that follows it.                                               *)
(***************************************************************************)
Generation ==
    /\ pc = "evolve"
    /\ generation < generations
    /\ UNCHANGED <<mgrVars, guiVars, kind, n, start_pos, timeout, board, path, recursive_calls,
                   backtrack_count, total_moves, dead_ends_hit, timed_out, stack, result,
                   checks, deadline, budget, solvesLeft, pathAtDeadline, firstRun>>
    /\ UNCHANGED <<generations, population_size, use_warnsdorff, dec, visited, probe>>
    /\ \E decoded_paths \in {<<>> \o [i \in DOMAIN population |->
                                  decode(kind, n, population[i], start_pos, belief_space,
                                         use_warnsdorff)]} :
       \* fitness decodes the chromosome again, to the same path
       \E fitness_scores \in {<<>> \o [i \in DOMAIN population |->
                                   path_fitness(kind, n, decoded_paths[i])]} :
          LET best_idx == best_index(fitness_scores)
              better == RatLess(best_fitness, fitness_scores[best_idx])
              redraws == \A cap \in budget : generation < cap
              evaluated == [work EXCEPT
                  !.decodes = @ + (IF kind # "CulturalAlgorithmSolver"
                                   THEN Len(population) + (IF better THEN 1 ELSE 0)
                                   ELSE 2 * Len(population)),
                  !.call_best_fitness =
                      IF RatLess(work.call_best_fitness, fitness_scores[best_idx])
                      THEN fitness_scores[best_idx] ELSE @,
                  !.call_best_path =
                      IF RatLess(work.call_best_fitness, fitness_scores[best_idx])
                      THEN decoded_paths[best_idx] ELSE @]
          IN  /\ belief_space' = IF kind # "CulturalAlgorithmSolver" THEN belief_space
                                 ELSE advanced_update(belief_space, population,
                                                      fitness_scores, decoded_paths)
              /\ IF kind # "SimpleGASolver" /\ DiversityRaises(population)
                 THEN /\ pc' = "raised"
                      /\ work' = evaluated
                      /\ population' = <<>>
                      /\ UNCHANGED <<generation, best_fitness, best_path>>
                 ELSE /\ best_fitness' = IF better THEN fitness_scores[best_idx]
                                         ELSE best_fitness
                      /\ best_path' = IF ~better THEN best_path
                                      ELSE IF kind # "CulturalAlgorithmSolver"
                                      THEN decode(kind, n, population[best_idx], start_pos,
                                                  belief_space, use_warnsdorff)
                                      ELSE decoded_paths[best_idx]
                      /\ \E searched \in after_local_search(kind, n, generation, population,
                                             fitness_scores, start_pos, belief_space',
                                             use_warnsdorff) :
                         \E injected \in after_injection(kind, n, generation, searched[1],
                                             searched[2], _calculate_diversity(population),
                                             start_pos, belief_space', use_warnsdorff) :
                            IF kind # "SimpleGASolver" /\ DiversityRaises(injected[1])
                            THEN /\ pc' = "raised"
                                 /\ work' = [evaluated EXCEPT !.entries = @ + 1]
                                 /\ population' = <<>>
                                 /\ UNCHANGED generation
                            ELSE /\ pc' = pc
                                 /\ generation' = generation + 1
                                 /\ work' = [evaluated EXCEPT
                                               !.entries = @ + 1,
                                               !.generations = @ + 1,
                                               !.replaced =
                                                   [population |-> injected[1],
                                                    fitness_scores |-> injected[2]]]
                                 /\ population' \in
                                        next_population(kind, n, injected[1], injected[2],
                                                        belief_space', population_size,
                                                        redraws)

(***************************************************************************)
(* The end of evolve(): success is len(set(self.best_path)) == n * n.      *)
(***************************************************************************)
EvolveReturn ==
    /\ pc = "evolve"
    /\ generation = generations
    /\ result' = WalkResult(Cardinality(Range(best_path)) = n * n, best_path)
    /\ firstRun' = Remember(start_pos, result', FALSE)
    /\ population' = <<>>
    /\ pc' = "done"
    /\ UNCHANGED <<kind, n, start_pos, timeout, board, path, recursive_calls,
                   backtrack_count, total_moves, dead_ends_hit, timed_out, stack, checks,
                   deadline, budget, solvesLeft, pathAtDeadline>>
    /\ UNCHANGED <<generation, generations, population_size, best_fitness, best_path,
                   belief_space, use_warnsdorff, dec, work, visited, probe>>
    /\ UNCHANGED <<mgrVars, guiVars>>

\* starts offered to the evolutionary solvers
EvolveStarts(nn) == {<<0, 0>>, <<nn \div 2, nn \div 2>>, <<-1, 1>>, <<nn, nn>>}

\* a long evolution solved once, or a one-generation evolution solved twice
InitGA ==
    /\ \E k \in EvolveKinds :
          \/ \E nn \in 1 .. MaxNEvolve :
                /\ Constructed(k, nn, None)
                /\ generations \in 1 .. MaxGenerations
                /\ solvesLeft = 1
          \/ \E nn \in 1 .. MaxNResolve :
                /\ Constructed(k, nn, None)
                /\ generations = 1
                /\ solvesLeft = 2
    /\ use_warnsdorff \in (IF kind = "CulturalAlgorithmSolver" THEN BOOLEAN ELSE {FALSE})
    /\ belief_space = IF kind = "SimpleGASolver" THEN <<>>
                      ELSE IF kind = "CulturalGASolver" THEN NewBeliefSpace(n)
                      ELSE NewAdvancedBeliefSpace(n)
    /\ budget = NoBudget
    /\ population = <<>>
    /\ generation = 0
    /\ population_size = PopulationSize
    /\ best_fitness = Rat(0)
    /\ best_path = <<>>
    /\ dec = <<>>
    /\ work = NoWork
    /\ visited = {}
    /\ probe = NoProbe
    /\ ManagerIdle
    /\ GuiIdle

NextGA ==
    \/ \E s \in EvolveStarts(n) :
          \E initial \in initialize_population(n, population_size) : SolveGA(s, initial)
    \/ Generation
    \/ EvolveReturn

SpecGA == InitGA /\ [][NextGA]_vars

(***************************************************************************)
(* A CulturalAlgorithmSolver built with the default use_warnsdorff=True    *)
(* evolves for ConvergedGenerations generations                            *)
(* from a population of clones of one chromosome that repair leaves as it  *)
(* is, and mutate redraws genes in the first MaxMutatingGenerations        *)
(* generations only.                                                       *)
(***************************************************************************)
\* initialize_population, every chromosome drawn the same alternation of two genes
converged_populations(nn, size) ==
    {[i \in 1 .. size |-> [j \in 1 .. nn * nn |-> IF j % 2 = 1 THEN ab[1] ELSE ab[2]]]
     : ab \in {e \in RandomGenes \X RandomGenes : e[1] # e[2]}}

\* the start offered to those runs: the centre of the board
ConvergedStarts(nn) == {<<nn \div 2, nn \div 2>>}

InitConverged ==
    /\ \E nn \in 1 .. MaxNConverged : Constructed("CulturalAlgorithmSolver", nn, None)
    /\ generations = ConvergedGenerations
    /\ solvesLeft = 1
    /\ use_warnsdorff = TRUE
    /\ belief_space = NewAdvancedBeliefSpace(n)
    /\ budget = {MaxMutatingGenerations}
    /\ population = <<>>
    /\ generation = 0
    /\ population_size = PopulationSize
    /\ best_fitness = Rat(0)
    /\ best_path = <<>>
    /\ dec = <<>>
    /\ work = NoWork
    /\ visited = {}
    /\ probe = NoProbe
    /\ ManagerIdle
    /\ GuiIdle

NextConverged ==
    \/ \E s \in ConvergedStarts(n) :
          \E initial \in converged_populations(n, population_size) : SolveGA(s, initial)
    \/ Generation
    \/ EvolveReturn

SpecConverged == InitConverged /\ [][NextConverged]_vars

(***************************************************************************)
(* The evolutionary runs of both kinds together: the short runs of every   *)
(* solver and the long run from a converged population.                    *)
(***************************************************************************)
InitEvolve == InitGA \/ InitConverged

NextEvolve ==
    \/ budget = NoBudget /\ NextGA
    \/ budget # NoBudget /\ NextConverged

SpecEvolve == InitEvolve /\ [][NextEvolve]_vars

(***************************************************************************)
(* One local_search call of a CulturalAlgorithmSolver: the chromosome is   *)
(* population[1], the belief space is new or has seen 20 generations.      *)
(***************************************************************************)
\* a belief space after 20 generations in which every cell was visited without success
MatureBelief(nn) ==
    [NewAdvancedBeliefSpace(nn) EXCEPT
        !.generation_count = 20,
        !.mobility_map = [c \in Cells(nn) |-> [visits |-> 20, success |-> 0]]]

\* chromosomes handed to local_search: one gene repeated
SearchedChromosomes(nn) == {[j \in 1 .. nn * nn |-> g] : g \in RandomGenes}

\* local_search is applied from every cell of the board
SearchStarts(nn) == Cells(nn)

InitSearch ==
    /\ \E nn \in 1 .. MaxNSearch : \E s \in SearchStarts(nn) :
          Constructed("CulturalAlgorithmSolver", nn, s)
    /\ use_warnsdorff \in BOOLEAN
    /\ belief_space \in {NewAdvancedBeliefSpace(n), MatureBelief(n)}
    /\ \E c \in SearchedChromosomes(n) : population = <<c>>
    /\ budget = NoBudget
    /\ solvesLeft = 0
    /\ generation = 0
    /\ generations = 0
    /\ population_size = 0
    /\ best_fitness = Rat(0)
    /\ best_path = <<>>
    /\ dec = <<>>
    /\ work = NoWork
    /\ visited = {}
    /\ probe = NoProbe
    /\ ManagerIdle
    /\ GuiIdle

ApplyLocalSearch ==
    /\ ~probe.recorded
    /\ \E run \in local_search_runs(n, population[1], start_pos, belief_space,
                                    use_warnsdorff) :
          probe' = [recorded |-> TRUE,
                    returned |-> run.best,
                    iterations |-> run.iterations,
                    fitness_before |-> fitness(kind, n, population[1], start_pos,
                                               belief_space, use_warnsdorff),
                    fitness_after |-> fitness(kind, n, run.best, start_pos, belief_space,
                                              use_warnsdorff)]
    /\ UNCHANGED <<mgrVars, guiVars, btVars, population, generation, generations, population_size,
                   best_fitness, best_path, belief_space, use_warnsdorff, dec, work,
                   visited>>

NextSearch == ApplyLocalSearch

SpecSearch == InitSearch /\ [][NextSearch]_vars

(***************************************************************************)
(* SolverManager: the registry and solve().  The solver that solve()       *)
(* builds and runs is a collaborator: what it returns, or that it raises,  *)
(* is a choice among the outcomes a solver can have.                       *)
(***************************************************************************)
\* _register_default_solvers
DefaultSolvers ==
    (<<"Random Walk", 0>> :> "RandomKnightWalk")
    @@ (<<"Ordered Walk", 1>> :> "OrderedKnightWalk")
    @@ (<<"Backtracking", 4>> :> "BacktrackingSolver")
    @@ (<<"Cultural Algorithm", 1>> :> "CulturalAlgorithmSolver")

\* algorithm names, levels and classes offered to the manager
ManagerNames == {"Random Walk", "Ordered Walk", "Backtracking", "Cultural Algorithm",
                 "Simple GA"}

ManagerLevels == {0, 1, 4}

ManagerClasses == {"RandomKnightWalk", "OrderedKnightWalk", "BacktrackingSolver",
                   "CulturalAlgorithmSolver", "SimpleGASolver"}

\* start_pos arguments offered: two pairs, None, and a triple
ManagerStarts(nn) == {<<0, 0>>, <<nn, nn>>, None, <<0, 0, 0>>}

\* the keyword parameters of each class's __init__
Signature(class) ==
    IF class \in {"RandomKnightWalk", "OrderedKnightWalk"} THEN {"n", "level", "timeout"}
    ELSE IF class = "BacktrackingSolver" THEN {"board_size", "start_pos", "timeout"}
    ELSE IF class = "CulturalAlgorithmSolver" THEN {"n", "level", "use_warnsdorff"}
    ELSE {"n", "level"}

\* the branch of solve() chosen by the substring tests on algorithm_name
Branch(algorithm_name) ==
    IF algorithm_name \in {"Random Walk", "Ordered Walk"} THEN "walk"
    ELSE IF algorithm_name = "Backtracking" THEN "backtracking"
    ELSE IF algorithm_name = "Cultural Algorithm" THEN "cultural"
    ELSE "generic"

\* the keywords with which a branch calls solver_class(...)
Keywords(branch) ==
    IF branch \in {"walk", "generic"} THEN {"n", "level", "timeout"}
    ELSE {"board_size", "start_pos", "timeout"}

\* the number of values a branch unpacks from solver.solve(...), and each class returns
Unpacked(branch) == IF branch \in {"walk", "generic"} THEN 2 ELSE 3

Returned(class) == IF class = "BacktrackingSolver" THEN 3 ELSE 2

\* what the solver's run can do: raise, or return (success, path)
solver_outcomes(nn, start) ==
    {[fault |-> TRUE, success |-> FALSE, path |-> <<>>],
     [fault |-> FALSE, success |-> FALSE, path |-> <<>>],
     [fault |-> FALSE, success |-> FALSE, path |-> <<start>>],
     [fault |-> FALSE, success |-> TRUE, path |-> CellSeq(nn)]}

\* the keys of `stats` built by each branch
StatsKeys(branch) ==
    IF branch = "walk" THEN {"total_moves", "dead_ends_hit", "coverage_percent"}
    ELSE IF branch = "backtracking" THEN {"recursive_calls", "backtrack_count", "nodes_explored"}
    ELSE IF branch = "cultural" THEN {"generations", "population_size", "best_fitness"}
    ELSE {}

\* the dictionaries solve() returns; execution_time is left out
ErrorResult(error, algorithm_name, level, N, start) ==
    [success |-> FALSE, error |-> error, algorithm |-> algorithm_name, level |-> level,
     board_size |-> N, start_position |-> start, path |-> <<>>, solution_length |-> 0,
     stats |-> {}]

UnifiedResult(success, p, algorithm_name, level, N, start, stats) ==
    [success |-> success, path |-> IF success THEN p ELSE <<>>,
     algorithm |-> algorithm_name, level |-> level, board_size |-> N,
     start_position |-> start, solution_length |-> IF success THEN Len(p) ELSE 0,
     stats |-> stats]

\* start_x, start_y = start_pos
Unpacks(start) == Len(start) = 2

\* SolverManager()
InitManager ==
    /\ Constructed("SolverManager", 0, None)
    /\ budget = NoBudget
    /\ solvesLeft = 1
    /\ EvoIdle
    /\ solvers = DefaultSolvers
    /\ request = <<>>
    /\ GuiIdle

register_solver(algorithm_name, level, solver_class) ==
    /\ kind = "SolverManager"
    /\ pc = "idle"
    /\ Cardinality({k \in DOMAIN solvers :
                        k \notin DOMAIN DefaultSolvers \/ solvers[k] # DefaultSolvers[k]})
           < MaxRegistrations
    /\ solvers' = (<<algorithm_name, level>> :> solver_class) @@ solvers
    /\ UNCHANGED <<btVars, evoVars, guiVars, request>>

\* SolverManager.solve: the registry miss, the unpacking of start_pos, and the try block
ManagerSolve(algorithm_name, level, N, start) ==
    /\ kind = "SolverManager"
    /\ pc = "idle"
    /\ solvesLeft > 0
    /\ solvesLeft' = solvesLeft - 1
    /\ LET solver_key == <<algorithm_name, level>>
           branch == Branch(algorithm_name)
           asked == [algorithm_name |-> algorithm_name, level |-> level, N |-> N,
                     start_pos |-> start]
       IN  IF solver_key \notin DOMAIN solvers
           THEN /\ result' = ErrorResult(<<"Solver not found", algorithm_name, level>>,
                                         algorithm_name, level, N, start)
                /\ request' = asked @@ [fault |-> "none"]
                /\ pc' = "done"
           ELSE IF ~Unpacks(start)
           THEN /\ result' = NoResult
                /\ request' = asked @@ [fault |-> "unpacking"]
                /\ pc' = "raised"
           ELSE IF ~(Keywords(branch) \subseteq Signature(solvers[solver_key]))
           THEN /\ result' = ErrorResult("TypeError", algorithm_name, level, N, start)
                /\ request' = asked @@ [fault |-> "constructing"]
                /\ pc' = "done"
           ELSE IF Unpacked(branch) # Returned(solvers[solver_key])
           THEN /\ result' = ErrorResult("ValueError", algorithm_name, level, N, start)
                /\ request' = asked @@ [fault |-> "running"]
                /\ pc' = "done"
           ELSE \E outcome \in solver_outcomes(N, start) :
                   /\ result' = IF outcome.fault
                                THEN ErrorResult("Exception", algorithm_name, level, N, start)
                                ELSE UnifiedResult(outcome.success, outcome.path,
                                                   algorithm_name, level, N, start,
                                                   StatsKeys(branch))
                   /\ request' = asked @@ [fault |-> IF outcome.fault THEN "running"
                                                                      ELSE "none"]
                   /\ pc' = "done"
    /\ UNCHANGED <<kind, n, start_pos, timeout, board, path, recursive_calls,
                   backtrack_count, total_moves, dead_ends_hit, timed_out, stack, checks,
                   deadline, budget, pathAtDeadline, firstRun>>
    /\ UNCHANGED <<evoVars, guiVars, solvers>>

NextManager ==
    \/ \E a \in ManagerNames : \E l \in ManagerLevels : \E c \in ManagerClasses :
          register_solver(a, l, c)
    \/ \E a \in ManagerNames : \E l \in ManagerLevels : \E nn \in 1 .. MaxNManager :
          \E s \in ManagerStarts(nn) : ManagerSolve(a, l, nn, s)

SpecManager == InitManager /\ [][NextManager]_vars

(***************************************************************************)
(* SolverManager.run_optimal and compare_best_levels.  Both call solve()   *)
(* with the level 1; probe records which call was made and the classes     *)
(* solve() looked up in the registry.                                      *)
(***************************************************************************)
\* what one solve() call can do: the class it looked up, and its return or its raise
solve_returns(registry, algorithm_name, level, N, start) ==
    LET solver_key == <<algorithm_name, level>>
        branch == Branch(algorithm_name)
        Return(classes, r) == [raised |-> FALSE, classes |-> classes, result |-> r]
    IN  IF solver_key \notin DOMAIN registry
        THEN {Return(<<>>, ErrorResult(<<"Solver not found", algorithm_name, level>>,
                                       algorithm_name, level, N, start))}
        ELSE LET solver_class == registry[solver_key]
             IN  IF ~Unpacks(start)
                 THEN {[raised |-> TRUE, classes |-> <<solver_class>>, result |-> NoResult]}
                 ELSE IF ~(Keywords(branch) \subseteq Signature(solver_class))
                 THEN {Return(<<solver_class>>,
                              ErrorResult("TypeError", algorithm_name, level, N, start))}
                 ELSE IF Unpacked(branch) # Returned(solver_class)
                 THEN {Return(<<solver_class>>,
                              ErrorResult("ValueError", algorithm_name, level, N, start))}
                 ELSE {Return(<<solver_class>>,
                              IF outcome.fault
                              THEN ErrorResult("Exception", algorithm_name, level, N, start)
                              ELSE UnifiedResult(outcome.success, outcome.path,
                                                 algorithm_name, level, N, start,
                                                 StatsKeys(branch)))
                       : outcome \in solver_outcomes(N, start)}

\* run_optimal: Backtracking level 1, then Cultural Algorithm level 1 on a large board
run_optimal(registry, N, start) ==
    UNION {IF first.raised \/ first.result.success \/ N < LargeBoard
           THEN {first}
           ELSE {[second EXCEPT !.classes = first.classes \o @]
                 : second \in solve_returns(registry, "Cultural Algorithm", 1, N, start)}
           : first \in solve_returns(registry, "Backtracking", 1, N, start)}

\* the entries of `comparison` made by the solve() calls of compare_best_levels
compared(registry, N, start) ==
    LET entry(a) == IF <<a, 1>> \in DOMAIN registry
                    THEN solve_returns(registry, a, 1, N, start)
                    ELSE {[raised |-> FALSE, classes |-> <<>>, result |-> None]}
    IN  {[raised |-> b.raised \/ c.raised,
          classes |-> IF b.raised THEN b.classes ELSE b.classes \o c.classes,
          result |-> [a \in {e \in {"Backtracking"} : b.result # None}
                             \cup {e \in {"Cultural Algorithm"} : c.result # None} |->
                         IF a = "Backtracking" THEN b.result ELSE c.result]]
         : b \in entry("Backtracking"), c \in entry("Cultural Algorithm")}

\* the successful entries, one of which has the smallest execution_time
Succeeded(comparison) == {a \in DOMAIN comparison : comparison[a].success}

\* the successful entry with the fewest nodes: only Backtracking reports a node count
most_efficient(comparison) ==
    IF "Backtracking" \in Succeeded(comparison) THEN "Backtracking" ELSE None

ManagerCall(called, N, start, outcome) ==
    /\ probe' = [recorded |-> TRUE, called |-> called, N |-> N, start_pos |-> start,
                 classes |-> outcome.classes]
    /\ pc' = IF outcome.raised THEN "raised" ELSE "done"

RunOptimal(N, start) ==
    /\ kind = "SolverManager"
    /\ pc = "idle"
    /\ solvesLeft > 0
    /\ solvesLeft' = solvesLeft - 1
    /\ \E outcome \in run_optimal(solvers, N, start) :
          /\ ManagerCall("run_optimal", N, start, outcome)
          /\ result' = outcome.result
    /\ UNCHANGED <<kind, n, start_pos, timeout, board, path, recursive_calls,
                   backtrack_count, total_moves, dead_ends_hit, timed_out, stack, checks,
                   deadline, budget, pathAtDeadline, firstRun>>
    /\ UNCHANGED <<population, generation, generations, population_size, best_fitness,
                   best_path, belief_space, use_warnsdorff, dec, work, visited>>
    /\ UNCHANGED <<mgrVars, guiVars>>

CompareBestLevels(N, start) ==
    /\ kind = "SolverManager"
    /\ pc = "idle"
    /\ solvesLeft > 0
    /\ solvesLeft' = solvesLeft - 1
    /\ \E outcome \in compared(solvers, N, start) :
          /\ ManagerCall("compare_best_levels", N, start, outcome)
          /\ IF outcome.raised THEN result' = NoResult
             ELSE \E fastest \in IF Succeeded(outcome.result) = {} THEN {None}
                                 ELSE Succeeded(outcome.result) :
                     result' = [comparison |-> outcome.result, fastest |-> fastest,
                                most_efficient |-> most_efficient(outcome.result)]
    /\ UNCHANGED <<kind, n, start_pos, timeout, board, path, recursive_calls,
                   backtrack_count, total_moves, dead_ends_hit, timed_out, stack, checks,
                   deadline, budget, pathAtDeadline, firstRun>>
    /\ UNCHANGED <<population, generation, generations, population_size, best_fitness,
                   best_path, belief_space, use_warnsdorff, dec, work, visited>>
    /\ UNCHANGED <<mgrVars, guiVars>>

\* board sizes offered to run_optimal: the small ones and the first large one
OptimalSizes == (1 .. MaxNManager) \cup {LargeBoard}

NextOptimal ==
    \/ \E a \in ManagerNames : \E l \in ManagerLevels : \E c \in ManagerClasses :
          register_solver(a, l, c)
    \/ \E nn \in OptimalSizes : \E s \in ManagerStarts(nn) : RunOptimal(nn, s)
    \/ \E nn \in OptimalSizes : \E s \in ManagerStarts(nn) : CompareBestLevels(nn, s)

SpecOptimal == InitManager /\ [][NextOptimal]_vars

(***************************************************************************)
(* KnightTourGUI.  The main thread runs _run_solver, _stop_solver and      *)
(* _monitor_progress one at a time; every solver thread runs               *)
(* _solve_in_thread and posts on the queue when its solver has returned.   *)
(***************************************************************************)
Message(type, run, success) == [type |-> type, run |-> run, success |-> success]

\* _run_solver, past its early returns (a run in progress, a board size outside 5..12)
RunSolver ==
    /\ kind = "KnightTourGUI"
    /\ ~is_running
    /\ runs < MaxRuns
    /\ current_solution' = {}
    /\ is_running' = TRUE
    /\ runs' = runs + 1
    /\ threads' = threads \cup {runs'}
    /\ UNCHANGED <<progress_queue, saved, stopped>>
    /\ UNCHANGED <<btVars, evoVars, mgrVars>>

\* progress_callback, called by the solver of thread t
ThreadProgress(t) ==
    /\ t \in threads
    /\ Len(progress_queue) < MaxQueue
    /\ progress_queue' = Append(progress_queue, Message("progress", t, FALSE))
    /\ UNCHANGED <<is_running, threads, runs, current_solution, saved, stopped>>
    /\ UNCHANGED <<btVars, evoVars, mgrVars>>

\* the end of _solve_in_thread: ('complete', success, ...) or ('error', ...) is posted
ThreadFinishes(t, type, success) ==
    /\ t \in threads
    /\ Len(progress_queue) < MaxQueue
    /\ progress_queue' = Append(progress_queue, Message(type, t, success))
    /\ threads' = threads \ {t}
    /\ UNCHANGED <<is_running, runs, current_solution, saved, stopped>>
    /\ UNCHANGED <<btVars, evoVars, mgrVars>>

\* _handle_solution: both branches save the run; _handle_error
handle(gui, message) ==
    IF message.type = "complete"
    THEN [is_running |-> FALSE, current_solution |-> {message.run},
          saved |-> Append(gui.saved, message.run)]
    ELSE IF message.type = "error" THEN [gui EXCEPT !.is_running = FALSE]
    ELSE gui

\* the loop `while True: message = self.progress_queue.get_nowait()` of _monitor_progress
RECURSIVE drain(_, _)
drain(gui, messages) ==
    IF messages = <<>> THEN gui
    ELSE drain(handle(gui, Head(messages)), Tail(messages))

\* one firing of _monitor_progress on a queue that holds messages
MonitorProgress ==
    /\ kind = "KnightTourGUI"
    /\ progress_queue # <<>>
    /\ LET gui == drain([is_running |-> is_running, current_solution |-> current_solution,
                         saved |-> saved], progress_queue)
       IN  /\ is_running' = gui.is_running
           /\ current_solution' = gui.current_solution
           /\ saved' = gui.saved
    /\ progress_queue' = <<>>
    /\ UNCHANGED <<threads, runs, stopped>>
    /\ UNCHANGED <<btVars, evoVars, mgrVars>>

\* _stop_solver; the Stop button is enabled from _run_solver until the run is handled
StopSolver ==
    /\ kind = "KnightTourGUI"
    /\ is_running
    /\ is_running' = FALSE
    /\ stopped' = stopped \cup threads
    /\ UNCHANGED <<progress_queue, threads, runs, current_solution, saved>>
    /\ UNCHANGED <<btVars, evoVars, mgrVars>>

InitGui ==
    /\ Constructed("KnightTourGUI", 0, None)
    /\ budget = NoBudget
    /\ solvesLeft = 0
    /\ EvoIdle
    /\ ManagerIdle
    /\ GuiIdle

NextGui ==
    \/ RunSolver
    \/ StopSolver
    \/ MonitorProgress
    \/ \E t \in threads : ThreadProgress(t)
    \/ \E t \in threads : \E success \in BOOLEAN : ThreadFinishes(t, "complete", success)
    \/ \E t \in threads : ThreadFinishes(t, "error", FALSE)

SpecGui == InitGui /\ [][NextGui]_vars

(***************************************************************************)
(* Vocabulary of the properties.                                           *)
(***************************************************************************)
Done == pc = "done"

InRange(nn, p) == p \in Cells(nn)

\* the four conditions of a complete tour on an nn x nn board
IsTour(nn, p) ==
    /\ Len(p) = nn * nn
    /\ \A i \in DOMAIN p : p[i] \in Cells(nn)
    /\ \A i, j \in DOMAIN p : i # j => p[i] # p[j]
    /\ \A i \in 1 .. Len(p) - 1 : IsKnightStep(p[i], p[i + 1])

AllUnmarked == \A c \in Cells(n) : board[c] = -1

\* a knight step changes the colour of the cell, so a tour alternates colours
ColourCount(nn, p) == Cardinality({c \in Cells(nn) : (c[1] + c[2]) % 2 = (p[1] + p[2]) % 2})

\* some sequence of knight steps from p visits every cell outside `seen` exactly once
RECURSIVE TourFrom(_, _, _)
TourFrom(nn, p, seen) ==
    \/ seen = Cells(nn)
    \/ \E q \in Cells(nn) \ seen : IsKnightStep(p, q) /\ TourFrom(nn, q, seen \cup {q})

HasTour(nn, s) ==
    /\ 2 * ColourCount(nn, s) >= nn * nn
    /\ TourFrom(nn, s, {s})

(***************************************************************************)
(* C3: when the deadline is exceeded during BacktrackingSolver.solve, the  *)
(* call returns success = false, stats.timed_out = true, an error message  *)
(* naming the configured timeout, and as its path the partial path that    *)
(* was on the path stack when the deadline was detected.                   *)
(***************************************************************************)
C3_TimeoutReturnsPartialPath ==
    (Done /\ kind = "BacktrackingSolver" /\ timed_out) =>
        /\ result.success = FALSE
        /\ result.stats.timed_out = TRUE
        /\ result.stats.error = <<"Timeout after", timeout, "seconds">>
        /\ result.path = pathAtDeadline

(***************************************************************************)
(* C4: when no timeout occurs, BacktrackingSolver, PureBacktracking and    *)
(* EnhancedBacktracking return success = true whenever a complete tour     *)
(* from the start exists; on the 5 x 5 board from (0,0) the result is      *)
(* success with path[0] = (0,0) and 25 positions.                          *)
(***************************************************************************)
C4_CompleteWithoutTimeout ==
    (Done /\ kind \in SearchKinds /\ ~timed_out /\ InRange(n, start_pos)) =>
        /\ (n = 5 /\ start_pos = <<0, 0>>) =>
               (result.success /\ result.path[1] = <<0, 0>> /\ Len(result.path) = 25)
        /\ ~result.success => ~HasTour(n, start_pos)

C4_Witness ==
    /\ Done
    /\ kind = "PureBacktracking"
    /\ n = 5
    /\ start_pos = <<0, 0>>
    /\ result.success
    /\ Len(result.path) = 25
    /\ backtrack_count > 0

(***************************************************************************)
(* C5: every call of a backtracking solve terminates, and its outcome is   *)
(* exactly one of: success with a path of n*n cells; failure at the        *)
(* exhausted root frame with every mark undone (board all -1, path empty); *)
(* timed out (timed_out set and success = false).                          *)
(***************************************************************************)
OutcomeSuccess == result.success /\ Len(result.path) = n * n

OutcomeExhausted ==
    ~result.success /\ ~timed_out /\ AllUnmarked /\ path = <<>> /\ result.path = <<>>

OutcomeTimedOut == timed_out /\ ~result.success

OneOutcome ==
    Cardinality({i \in 1 .. 3 : <<OutcomeSuccess, OutcomeExhausted, OutcomeTimedOut>>[i]}) = 1

C5_TerminatesInOneOutcome ==
    /\ [](Done => OneOutcome)
    /\ (pc = "search") ~> Done

C5_Witness ==
    /\ Done
    /\ InRange(n, start_pos)
    /\ OutcomeExhausted
    /\ recursive_calls > 1

(***************************************************************************)
(* C6: for the fixed-order variants, when no timeout occurs, the returned  *)
(* path is a function of (n, start): a solve() on an instance that has     *)
(* already served other solve() calls returns the path the first solve()   *)
(* with that start returned on the fresh instance.                         *)
(***************************************************************************)
C6_PathDependsOnStartOnly ==
    (/\ Done
     /\ kind \in FixedOrderKinds
     /\ firstRun.recorded
     /\ start_pos = firstRun.start
     /\ ~timed_out
     /\ ~firstRun.timed_out) => result.path = firstRun.path

C6_Witness ==
    /\ Done
    /\ kind = "PureBacktracking"
    /\ n = 5
    /\ solvesLeft = 0
    /\ firstRun.others
    /\ start_pos = firstRun.start
    /\ result.success
    /\ result.path = firstRun.path

(***************************************************************************)
(* C9: the degree of a cell is the number of knight deltas whose           *)
(* destination is on the board and unvisited, hence in 0..8; on an empty   *)
(* board with n >= 5 it is 2 at every corner and 8 at every cell at least  *)
(* two cells away from every edge.                                         *)
(***************************************************************************)
OpenNeighbours(nn, p, vis) == {q \in Cells(nn) \ vis : IsKnightStep(p, q)}

IsCorner(nn, p) == p[1] \in {0, nn - 1} /\ p[2] \in {0, nn - 1}

IsInterior(nn, p) == \A i \in 1 .. 2 : 2 <= p[i] /\ p[i] <= nn - 3

DegreeIs(k) ==
    /\ probe.get_degree = k
    /\ probe.enh_get_degree = k
    /\ probe.get_mobility = k

C9_DegreeCountsOpenNeighbours ==
    probe.recorded =>
        /\ DegreeIs(Cardinality(OpenNeighbours(n, probe.pos, visited)))
        /\ probe.get_degree \in 0 .. 8
        /\ probe.get_mobility \in 0 .. 8
        /\ (visited = {} /\ n >= 5 /\ IsCorner(n, probe.pos)) => DegreeIs(2)
        /\ (visited = {} /\ n >= 5 /\ IsInterior(n, probe.pos)) => DegreeIs(8)

C9_Witness ==
    /\ probe.recorded
    /\ n = 5
    /\ visited # {}
    /\ probe.pos \notin visited
    /\ probe.get_mobility = 1
    /\ probe.get_degree = 1

(***************************************************************************)
(* C10: get_position_difficulty(p) is exactly 0.5 when p was never         *)
(* recorded and exactly 1 - s/v when p has v > 0 visits and s successes;   *)
(* after any sequence of updates s <= v for every recorded position, so    *)
(* the value lies in [0, 1].                                               *)
(***************************************************************************)
C10_DifficultyIsFailureRate ==
    probe.recorded =>
        LET map == belief_space.mobility_map
            p == probe.pos
            d == probe.difficulty
        IN  /\ p \notin DOMAIN map => d = <<1, 2>>
            /\ p \in DOMAIN map => /\ map[p].visits > 0
                                   /\ RatEq(d, <<map[p].visits - map[p].success, map[p].visits>>)
            /\ \A q \in DOMAIN map : map[q].success <= map[q].visits
            /\ RatLeq(Rat(0), d) /\ RatLeq(d, Rat(1))

C10_Witness ==
    /\ probe.recorded
    /\ probe.pos \in DOMAIN belief_space.mobility_map
    /\ belief_space.mobility_map[probe.pos].visits = 3
    /\ belief_space.mobility_map[probe.pos].success = 1
    /\ RatEq(probe.difficulty, <<2, 3>>)

(***************************************************************************)
(* C7: for every chromosome (any length, any integer genes), every         *)
(* in-range start and every belief-space state, the path produced by       *)
(* decode contains no position twice.                                      *)
(***************************************************************************)
C7_DecodeNeverRevisits ==
    (kind \in GAKinds /\ InRange(n, start_pos)) =>
        \A i, j \in DOMAIN dec.path : i # j => dec.path[i] # dec.path[j]

C7_Witness ==
    /\ kind = "CulturalAlgorithmSolver"
    /\ InRange(n, start_pos)
    /\ n = 4
    /\ Len(dec.path) = MaxGenes + 1
    /\ Cardinality(Range(dec.path)) = MaxGenes + 1
    /\ dec.repaired
    /\ belief_space.mobility_map # <<>>

(***************************************************************************)
(* C8: for every chromosome and every in-range start the path produced by  *)
(* decode is a valid partial path: it begins at the start, every element   *)
(* is on the board and every consecutive pair is a knight move.            *)
(***************************************************************************)
C8_DecodeIsPartialPath ==
    (kind \in GAKinds /\ InRange(n, start_pos)) =>
        /\ dec.path[1] = start_pos
        /\ \A i \in DOMAIN dec.path : dec.path[i] \in Cells(n)
        /\ \A i \in 1 .. Len(dec.path) - 1 : IsKnightStep(dec.path[i], dec.path[i + 1])

C8_Witness ==
    /\ kind = "SimpleGASolver"
    /\ n = 3
    /\ start_pos = <<0, 0>>
    /\ dec.repaired
    /\ dec.stopped
    /\ Len(dec.path) = 8

C2_InvalidStartDoesNoWork ==
    (Done /\ ~InRange(n, start_pos)) =>
        (~result.success /\ result.path = <<>> /\ work = NoWork)

(***************************************************************************)
(* C15: during a backtracking search (PureBacktracking,                    *)
(* EnhancedBacktracking, BacktrackingSolver), at every call and return     *)
(* boundary board[x][y] = k >= 0 exactly when path[k] = (x, y) and every   *)
(* other cell is -1; a frame that fails restores exactly its own cell and  *)
(* pops exactly its own path entry.                                        *)
(***************************************************************************)
BoardMirrorsPath ==
    /\ \A k \in DOMAIN path : path[k] \in Cells(n) /\ board[path[k]] = k - 1
    /\ \A c \in Cells(n) : board[c] = -1 \/ (board[c] \in 0 .. Len(path) - 1 /\ path[board[c] + 1] = c)

FrameUndoesItself ==
    (kind \in SearchKinds /\ pc = "search" /\ Len(path') < Len(path)) =>
        /\ path[Len(path)] = Top.pos
        /\ path' = Pop(path)
        /\ board' = [board EXCEPT ![Top.pos] = -1]
        /\ stack' = Pop(stack)

C15_BoardMirrorsPath ==
    /\ []((kind \in SearchKinds) => BoardMirrorsPath)
    /\ [][FrameUndoesItself]_vars

C15_Witness ==
    /\ kind = "EnhancedBacktracking"
    /\ pc = "search"
    /\ backtrack_count > 1
    /\ Len(path) > 3
    /\ Len(stack) = Len(path) + 1

(***************************************************************************)
(* C16: the Warnsdorff solvers (BacktrackingSolver.get_ordered_moves,      *)
(* EnhancedBacktracking._backtrack) try their candidates in ascending      *)
(* order of degree on the current board; candidates of equal degree keep   *)
(* the order of the move-delta table.                                      *)
(***************************************************************************)
WarnsdorffKinds == {"BacktrackingSolver", "EnhancedBacktracking"}

OnwardCount(nn, b, c) == Cardinality({q \in Cells(nn) : IsKnightStep(c, q) /\ b[q] = -1})

TableOf(k) == IF k = "BacktrackingSolver" THEN MOVES ELSE KNIGHT_MOVES

DeltaIndex(k, p, q) == CHOOSE i \in 1 .. 8 : TableOf(k)[i] = <<q[1] - p[1], q[2] - p[2]>>

TriedBefore(k, nn, b, p, c1, c2) ==
    \/ OnwardCount(nn, b, c1) < OnwardCount(nn, b, c2)
    \/ /\ OnwardCount(nn, b, c1) = OnwardCount(nn, b, c2)
       /\ DeltaIndex(k, p, c1) < DeltaIndex(k, p, c2)

C16_AscendingDegreeOrder ==
    (kind \in WarnsdorffKinds /\ pc = "search" /\ Top.fn = "search") =>
        \A i, j \in DOMAIN Top.todo :
            i < j => TriedBefore(kind, n, board, Top.pos, Top.todo[i], Top.todo[j])

C16_Witness ==
    /\ kind = "BacktrackingSolver"
    /\ pc = "search"
    /\ Top.fn = "search"
    /\ Len(Top.todo) >= 3
    /\ \E i \in 1 .. Len(Top.todo) - 1 :
          /\ OnwardCount(n, board, Top.todo[i]) = OnwardCount(n, board, Top.todo[i + 1])
          /\ DeltaIndex(kind, Top.pos, Top.todo[i]) < DeltaIndex(kind, Top.pos, Top.todo[i + 1])
    /\ \E i \in 1 .. Len(Top.todo) - 1 :
          /\ OnwardCount(n, board, Top.todo[i]) < OnwardCount(n, board, Top.todo[i + 1])
          /\ DeltaIndex(kind, Top.pos, Top.todo[i]) > DeltaIndex(kind, Top.pos, Top.todo[i + 1])

(***************************************************************************)
(* C17: EnhancedBacktracking never recurses into a candidate d when        *)
(* marking d would leave some unvisited neighbour of d with degree 0:      *)
(* such candidates are removed before the degree sort.                     *)
(***************************************************************************)
C17_NoIsolatingCandidate ==
    (kind = "EnhancedBacktracking" /\ pc = "search" /\ Top.fn = "search" /\ Top.mc > 0) =>
        ~_has_isolated_neighbor(n, board, Top.pos[1], Top.pos[2])

(***************************************************************************)
(* C18: in BacktrackingSolver, once timed_out is set no later recursive    *)
(* call marks a cell, extends the path or increments recursive_calls       *)
(* (the progress callback is invoked only by a call that marks); every     *)
(* call made after the deadline returns failure at once, and success is    *)
(* never reported together with timed_out = true.                          *)
(***************************************************************************)
NoWorkAfterTimeout ==
    (kind = "BacktrackingSolver" /\ pc = "search" /\ timed_out) =>
        /\ timed_out'
        /\ recursive_calls' = recursive_calls
        /\ Len(path') <= Len(path)
        /\ \A c \in Cells(n) : board'[c] \in {-1, board[c]}
        /\ pc' = "done" => ~result'.success

C18_TimeoutStopsTheSearch ==
    /\ [][NoWorkAfterTimeout]_vars
    /\ []((kind = "BacktrackingSolver" /\ Done /\ timed_out) => ~result.success)

C18_Witness ==
    /\ kind = "BacktrackingSolver"
    /\ Done
    /\ timed_out
    /\ ~result.success
    /\ recursive_calls > 3
    /\ checks > 3
    /\ path = <<>>

(***************************************************************************)
(* C20: decode consumes the genes in order and every consumed gene extends *)
(* the path by exactly one cell, the gene's own move or a repair move;     *)
(* decoding ends with fewer than min(n*n, len(chromosome) + 1) cells only  *)
(* when the current cell has no legal unvisited destination.               *)
(***************************************************************************)
Stuck(st) == OpenNeighbours(n, st.current_pos, st.visited) = {}

GeneExtendsByOne ==
    \E q \in OpenNeighbours(n, dec.current_pos, dec.visited) :
        /\ dec'.path = Append(dec.path, q)
        /\ dec'.visited = dec.visited \cup {q}
        /\ dec'.current_pos = q
        /\ ~dec'.stopped
        /\ dec'.repaired = dec.repaired =>
               \E g \in GeneChoices : q = apply_move(dec.current_pos, g)

DecodingEnds ==
    /\ dec'.stopped
    /\ dec'.path = dec.path
    /\ Cardinality(dec.visited) >= n * n \/ Stuck(dec)

LoopBody == (kind \in GAKinds) => (GeneExtendsByOne \/ DecodingEnds)

C20_EveryGeneExtendsThePath ==
    /\ [][LoopBody]_vars
    /\ []((kind \in GAKinds /\ dec.stopped /\ Len(dec.path) < n * n) => Stuck(dec))

C20_Witness ==
    /\ kind = "CulturalAlgorithmSolver"
    /\ n = 4
    /\ InRange(n, start_pos)
    /\ dec.stopped
    /\ dec.repaired
    /\ Len(dec.path) \in 5 .. MaxGenes
    /\ Stuck(dec)

BeliefKinds == {"CulturalGASolver", "CulturalAlgorithmSolver"}

TotalMoveUsage(bs) ==
    bs.move_usage[0] + bs.move_usage[1] + bs.move_usage[2] + bs.move_usage[3]
    + bs.move_usage[4] + bs.move_usage[5] + bs.move_usage[6] + bs.move_usage[7]

FreshBeliefSpace(bs) ==
    /\ bs.generation_count = 0
    /\ TotalMoveUsage(bs) = 0
    /\ bs.mobility_map = <<>>
    /\ bs.best_individuals = <<>>

IsErrorResult(r) ==
    /\ "error" \in DOMAIN r
    /\ r.success = FALSE
    /\ r.path = <<>>
    /\ r.solution_length = 0

heuristic_score(nn, bs, c, vis) ==
    LET difficulty == get_position_difficulty(bs, c)
        base == 2 * Cardinality(OpenNeighbours(nn, c, vis))
                + Cardinality(OpenNeighbours(nn, c, vis \cup {c}))
    IN  <<base * difficulty[2] - 10 * difficulty[1], difficulty[2]>>

\* decode does not follow gene g from the current position
Rejects(g) ==
    LET next_pos == apply_move(dec.current_pos, g)
    IN  ~(/\ gene_is_usable(n, next_pos, dec.visited)
          /\ kind = "CulturalAlgorithmSolver" =>
                 cultural_accepts(n, dec, belief_space, use_warnsdorff, next_pos))

\* this step is the repair branch of decode, taken for some rejected gene
RepairStep ==
    /\ ~dec.stopped
    /\ Cardinality(dec.visited) < n * n
    /\ OpenNeighbours(n, dec.current_pos, dec.visited) # {}
    /\ \E g \in GeneChoices :
          /\ Rejects(g)
          /\ dec' = decode_step(kind, n, dec, g, belief_space, use_warnsdorff)

RepairIsBestScored ==
    (kind \in GAKinds /\ RepairStep) =>
        LET legal == OpenNeighbours(n, dec.current_pos, dec.visited)
            taken == dec'.current_pos
        IN  /\ taken \in legal
            /\ \A c \in legal :
                  RatLeq(heuristic_score(n, belief_space, c, dec.visited),
                         heuristic_score(n, belief_space, taken, dec.visited))

C21_RepairMaximisesTheScore == [][RepairIsBestScored]_vars

(***************************************************************************)
(* C22: throughout CulturalAlgorithmSolver.decode, after the construction  *)
(* of the MobilityManager and after every update_after_move, get_mobility  *)
(* of an on-board unvisited cell is the freshly counted number of its open *)
(* neighbours with respect to the current visited set, and get_mobility of *)
(* a visited cell is 0.                                                    *)
(***************************************************************************)
C22_CacheIsTheFreshDegree ==
    (kind = "CulturalAlgorithmSolver") =>
        \A c \in Cells(n) :
            get_mobility(dec.mobility_cache, c[1], c[2])
                = IF c \in dec.visited THEN 0
                  ELSE Cardinality(OpenNeighbours(n, c, dec.visited))

\* three moves made, and a cell whose cached mobility is no longer that of the empty board
C22_Witness ==
    /\ kind = "CulturalAlgorithmSolver"
    /\ n = 4
    /\ Len(dec.path) >= 4
    /\ \E c \in Cells(n) \ dec.visited :
          /\ get_mobility(dec.mobility_cache, c[1], c[2]) > 0
          /\ get_mobility(dec.mobility_cache, c[1], c[2])
                 < Cardinality(OpenNeighbours(n, c, {}))

(***************************************************************************)
(* C23: in every generation of every evolutionary solver the elitism_count *)
(* chromosomes with the highest fitness scores at replacement time (after  *)
(* local search and diversity injection) appear gene for gene in the next  *)
(* generation's population: the new population starts with elitism_count   *)
(* chromosomes of distinct individuals of the replaced one, and no other   *)
(* individual of the replaced population scored higher than any of them.   *)
(***************************************************************************)
EliteCarriedOver(old, scores, new) ==
    \E e \in [1 .. Min(elitism_count, Len(old)) -> DOMAIN old] :
        /\ \A i, j \in DOMAIN e : i # j => e[i] # e[j]
        /\ \A i \in DOMAIN e :
              /\ new[i] = old[e[i]]
              /\ \A k \in DOMAIN old \ {e[j] : j \in DOMAIN e} :
                    RatLeq(scores[k], scores[e[i]])

C23_ElitesSurviveUnchanged ==
    (kind \in EvolveKinds /\ pc = "evolve" /\ generation > 0) =>
        EliteCarriedOver(work.replaced.population, work.replaced.fitness_scores,
                         population)

\* an individual that was not among the first elitism_count of the replaced population,
\* and scored strictly higher than one of them, leads the new population
C23_Witness ==
    /\ kind \in EvolveKinds
    /\ pc = "evolve"
    /\ generation > 0
    /\ LET old == work.replaced.population
           scores == work.replaced.fitness_scores
       IN  \E k \in DOMAIN old :
              /\ k > elitism_count
              /\ population[1] = old[k]
              /\ old[k] # old[1]
              /\ RatLess(scores[1], scores[k])

(***************************************************************************)
(* C24: local_search ends after at most 3 rounds of its outer loop, and it *)
(* returns either its input unchanged or a chromosome of the same length   *)
(* whose fitness is strictly greater than the input's.                     *)
(***************************************************************************)
C24_LocalSearchOnlyImproves ==
    (kind = "CulturalAlgorithmSolver" /\ probe.recorded) =>
        /\ probe.iterations \in 1 .. 3
        /\ Len(probe.returned) = Len(population[1])
        /\ \/ probe.returned = population[1]
           \/ RatLess(probe.fitness_before, probe.fitness_after)

\* an improved chromosome was returned, after more than one round
C24_Witness ==
    /\ kind = "CulturalAlgorithmSolver"
    /\ probe.recorded
    /\ probe.returned # population[1]
    /\ probe.iterations >= 2
    /\ RatLess(probe.fitness_before, probe.fitness_after)

(***************************************************************************)
(* C25: BeliefSpace.update accumulates the per-move usage counts and the   *)
(* per-position visit counts from exactly the top max(1, P div 5)          *)
(* individuals of a population of P.                                       *)
(***************************************************************************)
\* the individuals of g the statement has update learn from
TopFifth(g) ==
    LET order == sorted_indices([i \in DOMAIN g |-> g[i].fitness])
    IN  [i \in 1 .. Max(1, Len(g) \div 5) |-> g[order[i]]]

\* the counts of bs raised by what the individuals of top show
LearntFrom(bs, top) ==
    [usage |-> [m \in 0 .. 7 |->
                   bs.move_usage[m] + SumSeq([i \in DOMAIN top |->
                                                 CountGene(top[i].chromosome, m)])],
     visits |-> [c \in Cells(bs.n) |->
                    (IF c \in DOMAIN bs.mobility_map THEN bs.mobility_map[c].visits ELSE 0)
                    + SumSeq([i \in DOMAIN top |->
                                 Cardinality({j \in DOMAIN top[i].path :
                                                 top[i].path[j] = c})])]]

\* the same counts as update left them
CountsOf(bs) ==
    [usage |-> bs.move_usage,
     visits |-> [c \in Cells(bs.n) |->
                    IF c \in DOMAIN bs.mobility_map THEN bs.mobility_map[c].visits ELSE 0]]

UpdateLearnsFromTopFifth ==
    \A g \in BeliefGenerations(n) :
        BeliefUpdate(g) => CountsOf(belief_space') = LearntFrom(belief_space, TopFifth(g))

C25_UpdateLearnsFromTopFifth == [][UpdateLearnsFromTopFifth]_vars

(***************************************************************************)
(* C26: every AdvancedBeliefSpace.update makes the stagnation counter      *)
(* counter + 1 when the generation's best fitness is less than 1 away from *)
(* the recorded best and max(0, counter - 1) otherwise, and records the    *)
(* generation's best; the counter is never negative and never exceeds the  *)
(* number of updates, and get_stagnation_level stays in [0, 1].            *)
(***************************************************************************)
StagnationInRange ==
    kind = "AdvancedBeliefSpace" =>
        /\ belief_space.stagnation_counter >= 0
        /\ belief_space.stagnation_counter <= belief_space.generation_count
        /\ RatLeq(Rat(0), get_stagnation_level(belief_space))
        /\ RatLeq(get_stagnation_level(belief_space), Rat(1))

StagnationFollowsTheBest ==
    \A g \in StagnationGenerations(n) :
        AdvancedUpdate(g) =>
            LET current_best == g[1].fitness
                near == RatLess(RatAbs(RatSub(current_best,
                                              belief_space.last_best_fitness)), Rat(1))
            IN  /\ belief_space'.last_best_fitness = current_best
                /\ belief_space'.stagnation_counter =
                       IF near THEN belief_space.stagnation_counter + 1
                       ELSE Max(0, belief_space.stagnation_counter - 1)

C26_StagnationCounterTracksTheBest ==
    []StagnationInRange /\ [][StagnationFollowsTheBest]_vars

\* the counter has passed 30, the level is held at 1, and some update made it decay
C26_Witness ==
    /\ kind = "AdvancedBeliefSpace"
    /\ belief_space.stagnation_counter > 30
    /\ belief_space.stagnation_counter < belief_space.generation_count
    /\ get_stagnation_level(belief_space) = Rat(1)

(***************************************************************************)
(* C27: _calculate_diversity returns a value in [0, 1] for every           *)
(* population of chromosomes of equal length, here the population evolve() *)
(* hands it at the head of a generation.                                   *)
(***************************************************************************)
EqualLengths(pop) == \A i, j \in DOMAIN pop : Len(pop[i]) = Len(pop[j])

C27_DiversityIsAFraction ==
    (/\ kind \in {"CulturalGASolver", "CulturalAlgorithmSolver"}
     /\ pc = "evolve"
     /\ population # <<>>
     /\ EqualLengths(population)) =>
        /\ RatLeq(Rat(0), _calculate_diversity(population))
        /\ RatLeq(_calculate_diversity(population), Rat(1))

(***************************************************************************)
(* C28: in PureBacktracking and EnhancedBacktracking, at every call and    *)
(* return of _backtrack and when solve() has returned, recursive_calls     *)
(* equals backtrack_count + len(path).                                     *)
(***************************************************************************)
C28_CallsAreBacktracksPlusPath ==
    kind \in DfsKinds => recursive_calls = backtrack_count + Len(path)

\* in the middle of a search that has backtracked and holds a path of several cells
C28_Witness ==
    /\ kind \in DfsKinds
    /\ pc = "search"
    /\ backtrack_count > 1
    /\ Len(path) > 2
    /\ recursive_calls = backtrack_count + Len(path)

(***************************************************************************)
(* C29: on a board smaller than 11 and from a start on the board,          *)
(* run_optimal, and compare_best_levels for its 'Backtracking' entry,      *)
(* dispatches to the registered Warnsdorff backtracking solver             *)
(* (BacktrackingSolver) and returns the result that solver produced.       *)
(***************************************************************************)
WarnsdorffRegistered ==
    \E key \in DOMAIN solvers : key[1] = "Backtracking" /\ solvers[key] = "BacktrackingSolver"

C29_OptimalRunsTheWarnsdorffSolver ==
    (/\ kind = "SolverManager"
     /\ pc # "idle"
     /\ WarnsdorffRegistered
     /\ probe.N < LargeBoard
     /\ probe.start_pos \in Cells(probe.N)) =>
        /\ pc = "done"
        /\ probe.classes # <<>>
        /\ probe.classes[1] = "BacktrackingSolver"
        /\ probe.called = "run_optimal" =>
              /\ result.algorithm = "Backtracking"
              /\ "error" \notin DOMAIN result
        /\ probe.called = "compare_best_levels" =>
              /\ "Backtracking" \in DOMAIN result.comparison
              /\ "error" \notin DOMAIN result.comparison["Backtracking"]

(***************************************************************************)
(* C30: once Stop was pressed while a solver thread was running, the       *)
(* 'complete' result of that thread is ignored: it is neither held as the  *)
(* current solution nor saved to the database.                             *)
(***************************************************************************)
C30_StoppedRunsAreIgnored ==
    kind = "KnightTourGUI" =>
        /\ current_solution \cap stopped = {}
        /\ \A i \in DOMAIN saved : saved[i] \notin stopped

=============================================================================
